---- MODULE Spec2Model ----
(***************************************************************************)
(* Verification model of 120hdd/SWARM:                                     *)
(*   - utils/rpc_provider.py  RotatingHTTPProvider (failover transport)    *)
(*   - utils/helper.py        Web3Helper._aggregate3 / multicall_fetch,    *)
(*                            batch_ens_forward / batch_ens_reverse        *)
(* Strings are sequences of one-character strings, so that strip() is a    *)
(* computation and not the identity.                                       *)
(***************************************************************************)
EXTENDS Integers, Sequences, FiniteSets, TLC

(***************************************************************************)
(* Bounds of the model                                                     *)
(***************************************************************************)
MaxUrls == 3

(***************************************************************************)
(* Strings                                                                 *)
(***************************************************************************)
SP == " "

\* the raw URL strings a caller may put in rpc_urls
UrlInputs == { <<>>, <<SP, "a">>, <<"a">>, <<"b">>, <<"c">> }

RECURSIVE LStrip(_)
LStrip(s) == IF s = <<>> THEN <<>>
             ELSE IF Head(s) = SP THEN LStrip(Tail(s)) ELSE s

RECURSIVE RStrip(_)
RStrip(s) == IF s = <<>> THEN <<>>
             ELSE IF s[Len(s)] = SP THEN RStrip(SubSeq(s, 1, Len(s) - 1)) ELSE s

\* str.strip()
Strip(s) == RStrip(LStrip(s))

SeqRange(s) == { s[i] : i \in 1..Len(s) }

\* list(dict.fromkeys(xs)): first occurrences, in order
RECURSIVE DedupKeepFirst(_, _)
DedupKeepFirst(xs, acc) ==
    IF xs = <<>> THEN acc
    ELSE IF Head(xs) \in SeqRange(acc)
         THEN DedupKeepFirst(Tail(xs), acc)
         ELSE DedupKeepFirst(Tail(xs), Append(acc, Head(xs)))

\* [u.strip() for u in rpc_urls if u and u.strip()]
RECURSIVE StripNonEmpty(_)
StripNonEmpty(xs) ==
    IF xs = <<>> THEN <<>>
    ELSE IF Head(xs) # <<>> /\ Strip(Head(xs)) # <<>>
         THEN <<Strip(Head(xs))>> \o StripNonEmpty(Tail(xs))
         ELSE StripNonEmpty(Tail(xs))

\* RotatingHTTPProvider.__init__: self._urls
InitUrls(rpc_urls) == DedupKeepFirst(StripNonEmpty(rpc_urls), <<>>)

\* RotatingHTTPProvider.__init__: "if not rpc_urls: raise ValueError"
CtorAccepts(rpc_urls) == rpc_urls # <<>>

\* RotatingHTTPProvider.__init__: super().__init__(endpoint_uri=rpc_urls[0])
InitEndpointUri(rpc_urls) == rpc_urls[1]

RawUrlLists == UNION { [1..n -> UrlInputs] : n \in 0..MaxUrls }

(***************************************************************************)
(* JSON-RPC responses and errors                                           *)
(***************************************************************************)
NoneV == [kind |-> "None"]

\* rate_tokens of _should_rotate_on_error
RateTokens == { "rate limit", "too many requests", "daily request count exceeded",
                "exceeded", "request limit", "over capacity",
                "project id request rate exceeded" }

RateCodes == { -32005, -32000, 429 }

\* An error object is a dict; "phrases" is the set of rate tokens that occur
\* in str(message).lower(); "falsy" is the empty dict / None.  The endpoints
\* of the model answer with a revert (code 3), a throttling error, or an
\* empty error object.
ErrorObjs ==
    { [kind |-> "dict", falsy |-> FALSE, code |-> 3,   phrases |-> {}],
      [kind |-> "dict", falsy |-> FALSE, code |-> 429, phrases |-> {"rate limit"}],
      [kind |-> "dict", falsy |-> TRUE,  code |-> 0,   phrases |-> {}] }

ShouldRotateAny(error_obj) == ~error_obj.falsy

\* _should_rotate_on_error
ShouldRotate(error_obj) ==
    IF error_obj.falsy THEN FALSE
    ELSE IF error_obj.phrases \cap RateTokens # {} THEN TRUE
    ELSE IF error_obj.code \in RateCodes THEN TRUE
    ELSE FALSE

\* what super().make_request can produce on one endpoint
OkResponse == [kind |-> "result"]
ErrResponses == { [kind |-> "error", error |-> e] : e \in ErrorObjs }
Responses == { OkResponse } \cup ErrResponses

\* {"error": {"code": 429, "message": "All RPC URLs rate limited or failed"}}
SyntheticError ==
    [kind |-> "error",
     error |-> [kind |-> "dict", falsy |-> FALSE, code |-> 429, phrases |-> {}]]

\* isinstance(response, dict) and "error" in response and _should_rotate_on_error(...)
RotateOnResponseMut(response) == FALSE

RotateOnResponse(response) ==
    response.kind = "error" /\ ShouldRotate(response.error)

\* while attempts < total
LoopCondMut(attempts, total) == attempts <= total

LoopCond(attempts, total) == attempts < total

\* lines 78-82 of make_request: the exhaustion outcome
ExhaustOutcomeMut(last_exc, last_error_resp) ==
    IF last_error_resp # NoneV
    THEN [kind |-> "return", resp |-> last_error_resp]
    ELSE IF last_exc # NoneV THEN [kind |-> "raise", exc |-> last_exc]
    ELSE [kind |-> "return", resp |-> SyntheticError]

ExhaustOutcome(last_exc, last_error_resp) ==
    IF last_exc # NoneV
    THEN [kind |-> "raise", exc |-> last_exc]
    ELSE IF last_error_resp # NoneV
         THEN [kind |-> "return", resp |-> last_error_resp]
         ELSE [kind |-> "return", resp |-> SyntheticError]

NextIdxSkip(i, n) == (i + 2) % n

\* self._idx = (self._idx + 1) % len(self._urls)   (0-based cursor)
NextIdx(i, n) == (i + 1) % n

(***************************************************************************)
(* Address strings, byte strings and the chain behind the node             *)
(***************************************************************************)
MaxWallets == 2
MaxTokens == 2
MaxCalls == 3
BulkWallets == 501

\* NATIVE_SENTINEL 0xEeee...EEeE and POLYGON.NATIVE_TOKEN 0x...1010
SentinelId == 238
PolygonNativeId == 4112

\* chunk = 500
Chunk == 500

\* token contracts whose behaviour the chain state decides
TokenIds == { 1, 2 }

TokenKinds == { "erc20", "revert", "nocode", "short" }

\* An address string: the 20-byte value id written in some casing, possibly
\* with surrounding whitespace; "bad" is a string that is no address,
\* "empty" the empty string.
AddrS(id, case) == [kind |-> "addr", id |-> id, case |-> case, pad |-> FALSE]

PadS(s) == [s EXCEPT !.pad = TRUE]

BadS == [kind |-> "bad", id |-> 0, case |-> "lower", pad |-> FALSE]

EmptyS == [kind |-> "empty", id |-> 0, case |-> "lower", pad |-> FALSE]

\* str.strip()
StripS(s) == [s EXCEPT !.pad = FALSE]

\* str.lower()
LowerS(s) == IF s.kind = "addr" THEN [s EXCEPT !.case = "lower"] ELSE s

\* "not s": None and the empty string are falsy
Falsy(s) == s.kind = "None" \/ (s.kind = "empty" /\ ~s.pad)

\* w3.to_checksum_address raises unless the string is a hex address
ChecksumOk(s) == s.kind = "addr" /\ ~s.pad

\* w3.to_checksum_address
ToChecksumAsGiven(s) == s

ToChecksum(s) == [s EXCEPT !.case = "checksum"]

NATIVE_SENTINEL == LowerS(AddrS(SentinelId, "checksum"))

\* getattr(self.cfg, "NATIVE_TOKEN", None) of the POLYGON configuration
CfgNativeToken == AddrS(PolygonNativeId, "lower")

\* native_aliases
NativeAliases == { NATIVE_SENTINEL, LowerS(CfgNativeToken) }

Max2(a, b) == IF a >= b THEN a ELSE b

Min2(a, b) == IF a <= b THEN a ELSE b

\* ABI encoding of an unsigned integer below 65536: one 32-byte word
Word(v) == [i \in 1..32 |-> IF i = 32 THEN v % 256
                            ELSE IF i = 31 THEN v \div 256 ELSE 0]

\* data[-32:]
Last32(data) == SubSeq(data, Max2(1, Len(data) - 31), Len(data))

\* int.from_bytes(b, 'big')
RECURSIVE FromBytesAcc(_, _, _)
FromBytesAcc(b, i, acc) ==
    IF i > Len(b) THEN acc ELSE FromBytesAcc(b, i + 1, acc * 256 + b[i])

IntFromBytes(b) == FromBytesAcc(b, 1, 0)

\* revert data of a failed call: the selector of Error(string)
RevertData == << 8, 195, 121, 160 >>

\* balanceOf(wallet) on a well-behaved token, as the chain holds it
Bal(wid, tid) == (wid + tid) % 3

\* the native balance of a wallet, as the chain holds it
NatBal(wid) == (wid + 1) % 3

\* decimals() of a well-behaved token, as the chain holds it
Dec(tid) == 6 * tid

\* allowance(wallet, spender) on a well-behaved token, as the chain holds it
Allowance(wid, tid) == (wid + 2 * tid) % 3

\* name() / symbol() of a well-behaved token: the bytes of "N1", "S1", ...
TokenLabel(tid, fn) == << (IF fn = "name" THEN 78 ELSE 83), 48 + tid >>

\* ABI encoding of a string of at most 32 bytes: offset, length, padded bytes
AbiString(b) ==
    Word(32) \o Word(Len(b)) \o [i \in 1..32 |-> IF i <= Len(b) THEN b[i] ELSE 0]

DecodeUint8Default(data) ==
    IF Len(data) >= 32 /\ IntFromBytes(SubSeq(data, 1, 32)) < 256
    THEN [ok |-> TRUE, val |-> IntFromBytes(SubSeq(data, 1, 32))]
    ELSE [ok |-> TRUE, val |-> 18]

\* w3.codec.decode(['uint8'], data)[0]; ok is FALSE where it raises
DecodeUint8(data) ==
    IF Len(data) >= 32 /\ IntFromBytes(SubSeq(data, 1, 32)) < 256
    THEN [ok |-> TRUE, val |-> IntFromBytes(SubSeq(data, 1, 32))]
    ELSE [ok |-> FALSE, val |-> 0]

\* _decode_string_like: a string, else a bytes32 without its trailing zeros,
\* else None
DecodeStringLike(data) ==
    LET n == IntFromBytes(SubSeq(data, 33, 64))
        b32 == SubSeq(data, 1, 32)
        cut == { i \in 0..32 : \A j \in (i + 1)..32 : b32[j] = 0 }
        keep == CHOOSE i \in cut : \A j \in cut : i <= j
    IN IF data = <<>> THEN [none |-> TRUE, s |-> <<>>]
       ELSE IF Len(data) >= 64 /\ IntFromBytes(SubSeq(data, 1, 32)) = 32
               /\ Len(data) >= 64 + n
            THEN [none |-> FALSE, s |-> SubSeq(data, 65, 64 + n)]
       ELSE IF Len(data) >= 32 /\ keep > 0
            THEN [none |-> FALSE, s |-> SubSeq(b32, 1, keep)]
       ELSE [none |-> TRUE, s |-> <<>>]

\* the registry of the naming system, the two resolvers deployed, and an
\* address without code that the registry names as a resolver
EnsRegistry == AddrS(3086, "checksum")

EnsResolver == AddrS(3087, "checksum")

EnsResolver2 == AddrS(3088, "checksum")

EnsNoResolver == AddrS(3089, "checksum")

\* the records of the naming system, as the chain holds them: the resolver
\* registered for a node (0: none), and what that resolver answers to
\* addr(node) and name(node).  The node of a name n is << n, 0 >>, the
\* reverse node of an address is << "addr.reverse", id >>.
EnsRecord(node) ==
    CASE node = << "n1", 0 >> ->
             [resolver |-> EnsResolver.id, addr |-> 1, name |-> <<>>]
      [] node = << "n2", 0 >> ->
             [resolver |-> EnsResolver.id, addr |-> 3, name |-> <<>>]
      [] node = << "n3", 0 >> ->
             [resolver |-> EnsResolver.id, addr |-> 0, name |-> <<>>]
      [] node = << "n5", 0 >> ->
             [resolver |-> EnsResolver2.id, addr |-> 4, name |-> <<>>]
      [] node = << "n6", 0 >> ->
             [resolver |-> EnsNoResolver.id, addr |-> 0, name |-> <<>>]
      [] node = << "addr.reverse", 1 >> ->
             [resolver |-> EnsResolver.id, addr |-> 0, name |-> << 110, 49 >>]
      [] node = << "addr.reverse", 3 >> ->
             [resolver |-> EnsResolver.id, addr |-> 0, name |-> << 110, 49 >>]
      [] node = << "addr.reverse", 4 >> ->
             [resolver |-> EnsResolver2.id, addr |-> 0, name |-> <<>>]
      [] OTHER -> [resolver |-> 0, addr |-> 0, name |-> <<>>]

\* self._enc(addr, fn, args): the call data
Enc(fn, args) == [fn |-> fn, args |-> args]

\* self._enc raises when addr is no address
EncOk(addr) == ChecksumOk(addr)

(***************************************************************************)
(* State of one RotatingHTTPProvider shared by two threads                 *)
(***************************************************************************)
Threads == { "t1", "t2" }

NoThread == "free"

VARIABLES
    urls,            \* self._urls
    idx,             \* self._idx (0-based)
    endpoint_uri,    \* self.endpoint_uri, read by HTTPProvider.make_request
    lock,            \* self._lock: NoThread or the holding thread
    pc,              \* per thread: position in make_request
    attempts,        \* per thread: local attempts
    total,           \* per thread: local total
    last_exc,        \* per thread: local last_exc
    last_error_resp, \* per thread: local last_error_resp
    response,        \* per thread: local response awaiting rotation
    tried,           \* per thread: endpoints the current call was sent to
    sent,            \* per thread: requests the current call has sent (history)
    failed,          \* per thread: failed requests of the current call (history)
    rotations,       \* per thread: _advance calls of the current call (history)
    raisedAt,        \* per thread: number of the last request that raised (0: none)
    idx0,            \* per thread: self._idx when the call began; -1 when idle or
                     \* once another thread was inside _advance during the call
                     \* (history)
    result           \* per thread: outcome handed to the caller

provVars == << urls, idx, endpoint_uri, lock, pc, attempts, total,
               last_exc, last_error_resp, response, tried, sent, failed,
               rotations, raisedAt, idx0, result >>

\* state of Web3Helper and of one multicall_fetch / _aggregate3 invocation
VARIABLES
    netDown,       \* every endpoint of the pool is failing: each request raises
    batchState,    \* self.multicall: "ok", "unset" (None), "raises" (call fails)
    tokenKind,     \* chain state: behaviour of each token contract
    fpc,           \* position in multicall_fetch / _aggregate3
    in_wallets,    \* argument wallets
    in_tokens,     \* argument tokens
    use_multicall, \* argument use_multicall
    want_balance,  \* argument want_balance
    opts,          \* arguments spender, ens_names, want_decimals, with_name,
                   \* with_symbol, want_ens, want_allowance
    allow_failure, \* argument allow_failure of a direct _aggregate3 call
    wallets,       \* local wallets (final_wallets)
    calls,         \* local calls
    index,         \* local index
    ci,            \* loop variable i of the chunk loop
    bal_writes,    \* out["balances"]: its assignments (key, value) in order
    out,           \* the other maps of out: their assignments in order
    sentCalls,     \* network calls issued so far (history)
    results,       \* results returned by _aggregate3, concatenated (history)
    paths,         \* path taken by each _aggregate3 invocation (history)
    parts,         \* length of the calls of each _aggregate3 invocation (history)
    requests       \* requests handed to the transport (history)

fetchVars == << netDown, batchState, tokenKind, fpc, in_wallets, in_tokens,
                use_multicall, want_balance, opts, allow_failure, wallets, calls,
                index, ci, bal_writes, out, sentCalls, results, paths, parts,
                requests >>

\* state of one batch_ens_forward / batch_ens_reverse invocation
VARIABLES
    epc,            \* position in batch_ens_forward / batch_ens_reverse
    ens_fn,         \* the round-2 function: "addr" (forward), "name" (reverse)
    ens_in,         \* argument ens_names / wallets
    ens_um,         \* argument use_multicall
    ens_keys,       \* keys of name_nodes / nodes, in dict order
    ens_resolvers,  \* resolvers, in the order of the keys (0: zero address)
    ens_groups,     \* keys of by_resolver, in dict order
    ens_gi,         \* groups of by_resolver the loop has processed
    ens_out,        \* out: its assignments (key, value) in order
    ens_log,        \* the rounds of calls made so far (history)
    ens_fwd         \* the forward result a reverse call was given (history)

ensVars == << epc, ens_fn, ens_in, ens_um, ens_keys, ens_resolvers, ens_groups,
              ens_gi, ens_out, ens_log, ens_fwd >>

\* state of SwapManager: the loaded keys and the permit probe
VARIABLES
    kpc,                  \* position of the key loading: "idle", "loaded", "exited"
    key_blob,             \* the text the keys were read from (history)
    wallet_private_keys,  \* self.wallet_private_keys
    wallet_addresses,     \* self.wallet_addresses
    permit_abi,           \* chain_config.MINIMAL_ABI_PERMIT: "missing", "nopermit", "full"
    nonce_kind,           \* chain state: the nonces function each token answers
    permit_cache,         \* self._permit_support_cache
    permit_call           \* the last check_eip2612_support call, with the state
                          \* of the network it ran in (history)

swapVars == << kpc, key_blob, wallet_private_keys, wallet_addresses, permit_abi,
               nonce_kind, permit_cache, permit_call >>

vars == << provVars, fetchVars, ensVars, swapVars >>

\* the state right after RotatingHTTPProvider(rpc_urls) returned
ProvInit ==
    /\ \E rpc_urls \in RawUrlLists :
        /\ CtorAccepts(rpc_urls)
        /\ urls = InitUrls(rpc_urls)
        /\ endpoint_uri = InitEndpointUri(rpc_urls)
    /\ idx = 0
    /\ lock = NoThread
    /\ pc = [t \in Threads |-> "idle"]
    /\ attempts = [t \in Threads |-> 0]
    /\ total = [t \in Threads |-> 0]
    /\ last_exc = [t \in Threads |-> NoneV]
    /\ last_error_resp = [t \in Threads |-> NoneV]
    /\ response = [t \in Threads |-> NoneV]
    /\ tried = [t \in Threads |-> {}]
    /\ sent = [t \in Threads |-> 0]
    /\ failed = [t \in Threads |-> 0]
    /\ rotations = [t \in Threads |-> 0]
    /\ raisedAt = [t \in Threads |-> 0]
    /\ idx0 = [t \in Threads |-> -1]
    /\ result = [t \in Threads |-> NoneV]

\* make_request entry: lines 55-58
Call(t) ==
    /\ pc[t] = "idle"
    /\ attempts' = [attempts EXCEPT ![t] = 0]
    /\ last_exc' = [last_exc EXCEPT ![t] = NoneV]
    /\ last_error_resp' = [last_error_resp EXCEPT ![t] = NoneV]
    /\ total' = [total EXCEPT ![t] = Len(urls)]
    /\ pc' = [pc EXCEPT ![t] = "loop"]
    /\ idx0' = [idx0 EXCEPT ![t] = IF lock = NoThread THEN idx ELSE -1]
    /\ UNCHANGED << urls, idx, endpoint_uri, lock, response, tried, sent,
                    failed, rotations, raisedAt, result >>
    /\ UNCHANGED << fetchVars, ensVars, swapVars >>

\* loop test true; super().make_request is sent to self.endpoint_uri (read
\* without the lock) and answers with a response that is returned (line 71)
AttemptReturn(t) ==
    /\ pc[t] = "loop"
    /\ LoopCond(attempts[t], total[t])
    /\ tried' = [tried EXCEPT ![t] = @ \cup {endpoint_uri}]
    /\ \E r \in Responses :
        /\ ~RotateOnResponse(r)
        /\ result' = [result EXCEPT ![t] = [kind |-> "return", resp |-> r]]
    /\ sent' = [sent EXCEPT ![t] = @ + 1]
    /\ pc' = [pc EXCEPT ![t] = "done"]
    /\ UNCHANGED << urls, idx, endpoint_uri, lock, attempts, total,
                    last_exc, last_error_resp, response, failed, rotations,
                    raisedAt, idx0 >>
    /\ UNCHANGED << fetchVars, ensVars, swapVars >>

\* loop test true; the endpoint answers with a rate-limit error (line 64)
AttemptRateLimit(t) ==
    /\ pc[t] = "loop"
    /\ LoopCond(attempts[t], total[t])
    /\ tried' = [tried EXCEPT ![t] = @ \cup {endpoint_uri}]
    /\ \E r \in Responses :
        /\ RotateOnResponse(r)
        /\ response' = [response EXCEPT ![t] = r]
    /\ sent' = [sent EXCEPT ![t] = @ + 1]
    /\ failed' = [failed EXCEPT ![t] = @ + 1]
    /\ pc' = [pc EXCEPT ![t] = "advance"]
    /\ UNCHANGED << urls, idx, endpoint_uri, lock, attempts, total,
                    last_exc, last_error_resp, rotations, raisedAt, idx0, result >>
    /\ UNCHANGED << fetchVars, ensVars, swapVars >>

\* loop test true; the request raises (connection error, timeout): line 72-73
AttemptException(t) ==
    /\ pc[t] = "loop"
    /\ LoopCond(attempts[t], total[t])
    /\ tried' = [tried EXCEPT ![t] = @ \cup {endpoint_uri}]
    /\ last_exc' = [last_exc EXCEPT ![t] = [kind |-> "exc", at |-> sent[t] + 1]]
    /\ response' = [response EXCEPT ![t] = NoneV]
    /\ sent' = [sent EXCEPT ![t] = @ + 1]
    /\ failed' = [failed EXCEPT ![t] = @ + 1]
    /\ raisedAt' = [raisedAt EXCEPT ![t] = sent[t] + 1]
    /\ pc' = [pc EXCEPT ![t] = "advance"]
    /\ UNCHANGED << urls, idx, endpoint_uri, lock, attempts, total,
                    last_error_resp, rotations, idx0, result >>
    /\ UNCHANGED << fetchVars, ensVars, swapVars >>

\* _advance: with self._lock: self._idx = (self._idx + 1) % len(self._urls)
AdvanceIdx(t) ==
    /\ pc[t] = "advance"
    /\ lock = NoThread
    /\ lock' = t
    /\ idx' = NextIdx(idx, Len(urls))
    /\ rotations' = [rotations EXCEPT ![t] = @ + 1]
    /\ idx0' = [u \in Threads |-> IF u = t THEN idx0[u] ELSE -1]
    /\ pc' = [pc EXCEPT ![t] = "adv_uri"]
    /\ UNCHANGED << urls, endpoint_uri, attempts, total,
                    last_exc, last_error_resp, response, tried, sent, failed,
                    raisedAt, result >>
    /\ UNCHANGED << fetchVars, ensVars, swapVars >>

\* _advance: self.endpoint_uri = self._urls[self._idx]; lock released;
\* then attempts += 1, last_error_resp = response, sleep, next iteration
AdvanceUri(t) ==
    /\ pc[t] = "adv_uri"
    /\ lock = t
    /\ endpoint_uri' = urls[idx + 1]
    /\ lock' = NoThread
    /\ attempts' = [attempts EXCEPT ![t] = @ + 1]
    /\ last_error_resp' = [last_error_resp EXCEPT ![t] =
                             IF response[t] # NoneV THEN response[t] ELSE @]
    /\ response' = [response EXCEPT ![t] = NoneV]
    /\ pc' = [pc EXCEPT ![t] = "loop"]
    /\ UNCHANGED << urls, idx, total, last_exc, tried, sent, failed,
                    rotations, raisedAt, idx0, result >>
    /\ UNCHANGED << fetchVars, ensVars, swapVars >>

\* loop test false: lines 78-82
Exhaust(t) ==
    /\ pc[t] = "loop"
    /\ ~LoopCond(attempts[t], total[t])
    /\ result' = [result EXCEPT ![t] = ExhaustOutcome(last_exc[t], last_error_resp[t])]
    /\ pc' = [pc EXCEPT ![t] = "done"]
    /\ UNCHANGED << urls, idx, endpoint_uri, lock, attempts, total,
                    last_exc, last_error_resp, response, tried, sent, failed,
                    rotations, raisedAt, idx0 >>
    /\ UNCHANGED << fetchVars, ensVars, swapVars >>

\* the caller takes the outcome; the locals of the call are gone
Return(t) ==
    /\ pc[t] = "done"
    /\ pc' = [pc EXCEPT ![t] = "idle"]
    /\ attempts' = [attempts EXCEPT ![t] = 0]
    /\ total' = [total EXCEPT ![t] = 0]
    /\ last_exc' = [last_exc EXCEPT ![t] = NoneV]
    /\ last_error_resp' = [last_error_resp EXCEPT ![t] = NoneV]
    /\ tried' = [tried EXCEPT ![t] = {}]
    /\ sent' = [sent EXCEPT ![t] = 0]
    /\ failed' = [failed EXCEPT ![t] = 0]
    /\ rotations' = [rotations EXCEPT ![t] = 0]
    /\ raisedAt' = [raisedAt EXCEPT ![t] = 0]
    /\ idx0' = [idx0 EXCEPT ![t] = -1]
    /\ result' = [result EXCEPT ![t] = NoneV]
    /\ UNCHANGED << urls, idx, endpoint_uri, lock, response >>
    /\ UNCHANGED << fetchVars, ensVars, swapVars >>

ProvNext ==
    \E t \in Threads :
        \/ Call(t)
        \/ AttemptReturn(t)
        \/ AttemptRateLimit(t)
        \/ AttemptException(t)
        \/ AdvanceIdx(t)
        \/ AdvanceUri(t)
        \/ Exhaust(t)
        \/ Return(t)

(***************************************************************************)
(* Web3Helper: the node, _aggregate3 and multicall_fetch                   *)
(***************************************************************************)
\* what the EVM answers to a call: (success, returnData)
ExecCall(call) ==
    LET tid == call[1].id
        fn == call[2].fn
        args == call[2].args
    IN IF tid = EnsRegistry.id
       THEN IF fn = "resolver" THEN << TRUE, Word(EnsRecord(args[1]).resolver) >>
            ELSE << FALSE, RevertData >>
       ELSE IF tid \in { EnsResolver.id, EnsResolver2.id }
       THEN IF fn = "addr" THEN << TRUE, Word(EnsRecord(args[1]).addr) >>
            ELSE IF fn = "name" THEN << TRUE, AbiString(EnsRecord(args[1]).name) >>
            ELSE << FALSE, RevertData >>
       ELSE IF tid \notin TokenIds THEN << TRUE, <<>> >>
       ELSE IF tokenKind[tid] = "revert" THEN << FALSE, RevertData >>
       ELSE IF tokenKind[tid] = "nocode" THEN << TRUE, <<>> >>
       ELSE IF tokenKind[tid] = "short" THEN << TRUE, << 5 >> >>
       ELSE IF fn = "balanceOf" THEN << TRUE, Word(Bal(args[1].id, tid)) >>
       ELSE IF fn = "decimals" THEN << TRUE, Word(Dec(tid)) >>
       ELSE IF fn = "allowance" THEN << TRUE, Word(Allowance(args[1].id, tid)) >>
       ELSE IF fn \in { "name", "symbol" } THEN << TRUE, AbiString(TokenLabel(tid, fn)) >>
       ELSE << FALSE, RevertData >>

\* w3.eth.call({'to': w3.to_checksum_address(target), 'data': data}) raises
EthCallRaises(call) ==
    \/ ~ChecksumOk(call[1])
    \/ netDown
    \/ ~ExecCall(call)[1]

\* one iteration of the fallback loop of _aggregate3 (lines 313-318)
FallbackOneMut(call) ==
    IF EthCallRaises(call) THEN << TRUE, <<>> >>
    ELSE << TRUE, ExecCall(call)[2] >>

FallbackOneNoData(call) ==
    IF EthCallRaises(call) THEN << FALSE, <<>> >>
    ELSE << TRUE, <<>> >>

FallbackOne(call) ==
    IF EthCallRaises(call) THEN << FALSE, <<>> >>
    ELSE << TRUE, ExecCall(call)[2] >>

\* the try block of _aggregate3 (lines 304-308) raises
BatchRaises(cs, allow) ==
    \/ \E k \in 1..Len(cs) : ~ChecksumOk(cs[k][1])
    \/ netDown
    \/ batchState = "raises"
    \/ ~allow /\ \E k \in 1..Len(cs) : ~ExecCall(cs[k])[1]

\* Multicall3.aggregate3 and the conversion of lines 307-308
BatchResults(cs) == [k \in 1..Len(cs) |-> ExecCall(cs[k])]

\* _aggregate3: the results, the path taken, the requests made
Aggregate3(cs, allow) ==
    IF batchState # "unset" /\ ~BatchRaises(cs, allow)
    THEN [res |-> BatchResults(cs), path |-> "batch", reqs |-> 1]
    ELSE [res |-> [k \in 1..Len(cs) |-> FallbackOne(cs[k])],
          path |-> "fallback",
          reqs |-> (IF batchState # "unset"
                       /\ \A k \in 1..Len(cs) : ChecksumOk(cs[k][1])
                    THEN 1 ELSE 0)
                   + Cardinality({ k \in 1..Len(cs) : ChecksumOk(cs[k][1]) })]

\* _push_wallet (lines 1455-1462): the value appended for addr, and its key
PushedValue(addr) == IF ChecksumOk(addr) THEN ToChecksum(addr) ELSE addr

WalletKey(addr) == LowerS(PushedValue(addr))

\* "for addr in wallets: _push_wallet(addr)" (lines 1452-1478, no ENS names):
\* final_wallets holds, in order, the value of every non-empty entry whose
\* key was not seen at an earlier position
PushWallets(ws) ==
    LET Entry(k) == [pos |-> k, addr |-> ws[k]]
        Fresh(e) ==
            /\ ~Falsy(e.addr)
            /\ \A j \in 1..(e.pos - 1) :
                 Falsy(ws[j]) \/ WalletKey(ws[j]) # WalletKey(e.addr)
        kept == SelectSeq([k \in 1..Len(ws) |-> Entry(k)], Fresh)
    IN [k \in 1..Len(kept) |-> PushedValue(kept[k].addr)]

\* int(self.w3.eth.get_balance(W)), 0 when it raises (lines 1593-1596)
NativeBalance(W) == IF netDown THEN 0 ELSE NatBal(W.id)

\* c.functions.balanceOf(W).call(), 0 when it raises (lines 1641-1645)
DirectBalance(W, T) ==
    IF netDown \/ T.id \notin TokenIds THEN 0
    ELSE IF tokenKind[T.id] # "erc20" THEN 0
    ELSE Bal(W.id, T.id)

\* the (w, t) pairs in the order in which "for w in wallets: for t in tokens"
\* visits them
Pairs(ws, ts) ==
    [n \in 1..(Len(ws) * Len(ts)) |->
        << ws[((n - 1) \div Len(ts)) + 1], ts[((n - 1) % Len(ts)) + 1] >>]

\* the pair passes the three "continue" of lines 1579-1591 / 1620-1632
PairLive(p) ==
    /\ ChecksumOk(p[1])
    /\ ~Falsy(StripS(p[2]))
    /\ ChecksumOk(StripS(p[2]))

\* token_lower in native_aliases (lines 1592, 1633)
PairNative(p) == LowerS(StripS(p[2])) \in NativeAliases

\* (W, T) of a pair
PairKey(p) == << ToChecksum(p[1]), ToChecksum(StripS(p[2])) >>

IsNativePair(p) == PairLive(p) /\ PairNative(p)

IsCallPair(p) == PairLive(p) /\ ~PairNative(p) /\ EncOk(PairKey(p)[2])

BuildCallsLoose(ws, ts) ==
    LET cp == SelectSeq(Pairs(ws, ts), IsCallPair)
        lp == SelectSeq(Pairs(ws, ts), PairLive)
        np == SelectSeq(Pairs(ws, ts), IsNativePair)
    IN [calls |-> [k \in 1..Len(cp) |->
                     << PairKey(cp[k])[2], Enc("balanceOf", << PairKey(cp[k])[1] >>) >>],
        index |-> [k \in 1..Len(lp) |-> PairKey(lp[k])],
        writes |-> [k \in 1..Len(np) |->
                     << PairKey(np[k]), NativeBalance(PairKey(np[k])[1]) >>],
        reqs |-> Len(np)]

\* the loops of the multicall path (lines 1576-1604): calls, index, the
\* native balances written on the way and the requests made for them
BuildCalls(ws, ts) ==
    LET cp == SelectSeq(Pairs(ws, ts), IsCallPair)
        np == SelectSeq(Pairs(ws, ts), IsNativePair)
    IN [calls |-> [k \in 1..Len(cp) |->
                     << PairKey(cp[k])[2], Enc("balanceOf", << PairKey(cp[k])[1] >>) >>],
        index |-> [k \in 1..Len(cp) |-> PairKey(cp[k])],
        writes |-> [k \in 1..Len(np) |->
                     << PairKey(np[k]), NativeBalance(PairKey(np[k])[1]) >>],
        reqs |-> Len(np)]

\* the loops of the direct path (lines 1619-1646)
DirectWallets(ws, ts) ==
    LET lp == SelectSeq(Pairs(ws, ts), PairLive)
    IN [writes |-> [k \in 1..Len(lp) |->
                     << PairKey(lp[k]),
                        IF PairNative(lp[k])
                        THEN NativeBalance(PairKey(lp[k])[1])
                        ELSE DirectBalance(PairKey(lp[k])[1], PairKey(lp[k])[2]) >>],
        reqs |-> Len(lp)]

\* calls[i:i+chunk]
CallsPartMut(cs, i) == SubSeq(cs, i + 1, Min2(Chunk, Len(cs)))

CallsPart(cs, i) == SubSeq(cs, i + 1, Min2(i + Chunk, Len(cs)))

\* index[i:i+chunk]
IndexPartFirst(ix, i) == SubSeq(ix, 1, Min2(Chunk, Len(ix)))

IndexPart(ix, i) == SubSeq(ix, i + 1, Min2(i + Chunk, Len(ix)))

\* the value stored for one result (lines 1611-1616)
BalanceValue(r) ==
    IF r[1] /\ r[2] # <<>> THEN IntFromBytes(Last32(r[2])) ELSE 0

\* for (w,t), (ok, data) in zip(index[i:i+chunk], res): out["balances"][(w,t)] = val
ZipWrites(ixpart, res) ==
    [k \in 1..Min2(Len(ixpart), Len(res)) |-> << ixpart[k], BalanceValue(res[k]) >>]

\* a Python list built by a comprehension: the sequence with its elements
\* computed
AsList(f) == f \o <<>>

\* the sum of a sequence of numbers
RECURSIVE SumSeq(_)
SumSeq(s) == IF s = <<>> THEN 0 ELSE Head(s) + SumSeq(Tail(s))

\* a network call as the node sees it: the lookup category that issued it,
\* the address it is sent to (for get_balance: the address asked about) and
\* the function called
NetCall(cat, addr, fn) == [cat |-> cat, to |-> addr.id, fn |-> fn]

\* the network calls of one _aggregate3 invocation: every call whose target
\* is an address goes out, in the batch or, on the fallback path, singly
AggregateSent(cat, cs) ==
    { NetCall(cat, cs[k][1], cs[k][2].fn) :
        k \in { j \in 1..Len(cs) : ChecksumOk(cs[j][1]) } }

\* one round of calls of batch_ens_forward / batch_ens_reverse (lines 406-415
\* and 436-446): one _aggregate3 invocation when use_multicall is set and
\* there is a Multicall3 contract, else one contract call per node, (False,
\* b'') where it raises
EnsRound(cs, um) ==
    LET Trim(agg) == [res |-> AsList(agg.res), reqs |-> agg.reqs]
        Direct(r) == IF netDown \/ ~r[1] THEN << FALSE, <<>> >> ELSE << TRUE, r[2] >>
    IN IF um /\ batchState # "unset"
       THEN Trim(Aggregate3(cs, TRUE))
       ELSE [res |-> AsList([k \in 1..Len(cs) |-> Direct(ExecCall(cs[k]))]),
             reqs |-> Len(cs)]

\* lines 417-425: the resolver address decoded from a round-1 result, 0 (the
\* zero address) where the call failed or the data is short
ResolverOf(d) ==
    IF d[1] /\ d[2] # <<>> /\ Len(d[2]) >= 32
    THEN IntFromBytes(SubSeq(d[2], 1, 32)) ELSE 0

\* the two rounds of batch_ens_forward (lines 406-448) and batch_ens_reverse
\* (lines 347-389) over the nodes of the distinct keys: round 1 asks the
\* registry for the resolver of each node, round 2 asks each non-zero resolver
\* fn2(node) for the nodes bound to it.  Gives the resolver found for each
\* node, the round-2 result of each node ((False, b'') where it was not
\* queried), the requests made and the network calls.
EnsRounds(nodes, fn2, um) ==
    LET Round(cs) == EnsRound(cs, um)
        Address(d) == ResolverOf(d)
        NonZero(r) == r # 0
        Members(resolver, r) ==
            LET Bound(k) == resolver[k] = r
            IN SelectSeq(AsList([k \in 1..Len(nodes) |-> k]), Bound)
        Calls2(m, r) == AsList([j \in 1..Len(m) |->
                                  << AddrS(r, "checksum"), Enc(fn2, << nodes[m[j]] >>) >>])
        Position(m, k) == CHOOSE j \in 1..Len(m) : m[j] = k
        Group(rs, r) == CHOOSE j \in 1..Len(rs) : rs[j] = r
        Second(resolver, rs, r2) ==
            AsList([k \in 1..Len(nodes) |->
                      IF resolver[k] = 0 THEN << FALSE, <<>> >>
                      ELSE r2[Group(rs, resolver[k])].res[
                                Position(Members(resolver, resolver[k]), k)]])
        Result(r1, resolver, rs, r2) ==
            [resolver |-> resolver,
             second |-> Second(resolver, rs, r2),
             reqs |-> r1.reqs + SumSeq(AsList([j \in 1..Len(rs) |-> r2[j].reqs])),
             sent |-> { NetCall("ens", EnsRegistry, "resolver") : k \in 1..Len(nodes) }
                      \cup { NetCall("ens", AddrS(rs[j], "checksum"), fn2) :
                               j \in 1..Len(rs) }]
        Round2(r1, resolver, rs) ==
            Result(r1, resolver, rs,
                   AsList([j \in 1..Len(rs) |->
                             Round(Calls2(Members(resolver, rs[j]), rs[j]))]))
        Round1(r1, resolver) ==
            Round2(r1, resolver, DedupKeepFirst(SelectSeq(resolver, NonZero), <<>>))
        Rounds(r1) ==
            Round1(r1, AsList([k \in 1..Len(nodes) |-> Address(r1.res[k])]))
    IN Rounds(Round(AsList([k \in 1..Len(nodes) |->
                              << EnsRegistry, Enc("resolver", << nodes[k] >>) >>])))

ForwardValueZero(d) ==
    IF d[1] /\ d[2] # <<>> /\ Len(d[2]) >= 32
    THEN AddrS(IntFromBytes(SubSeq(d[2], 1, 32)), "checksum")
    ELSE NoneV

\* lines 449-455: the value batch_ens_forward stores for a round-2 result:
\* the checksum address, None for the zero address, for a failed call and
\* for short data
ForwardValue(d) ==
    IF d[1] /\ d[2] # <<>> /\ Len(d[2]) >= 32
       /\ IntFromBytes(SubSeq(d[2], 1, 32)) # 0
    THEN AddrS(IntFromBytes(SubSeq(d[2], 1, 32)), "checksum")
    ELSE NoneV

\* lines 392-396: "nm or None" for the name decoded from non-empty round-2
\* data, None where the decoding raises
ReverseName(d) ==
    IF Len(d) >= 64 /\ IntFromBytes(SubSeq(d, 1, 32)) = 32
       /\ Len(d) >= 64 + IntFromBytes(SubSeq(d, 33, 64))
       /\ IntFromBytes(SubSeq(d, 33, 64)) > 0
    THEN [none |-> FALSE, s |-> SubSeq(d, 65, 64 + IntFromBytes(SubSeq(d, 33, 64)))]
    ELSE [none |-> TRUE, s |-> <<>>]

\* batch_ens_forward (lines 401-456): the map name -> address | None, in the
\* order of its keys
BatchEnsForward(ens_names, um) ==
    LET names == DedupKeepFirst(ens_names, <<>>)
        Of(rounds) ==
            [map |-> [k \in 1..Len(names) |->
                        << names[k], ForwardValue(rounds.second[k]) >>],
             reqs |-> rounds.reqs,
             sent |-> rounds.sent]
    IN Of(EnsRounds(AsList([k \in 1..Len(names) |-> << names[k], 0 >>]), "addr", um))

\* batch_ens_reverse (lines 342-397): raises when a wallet is no address
\* (line 345); else the map wallet -> name | None: one key per input string
\* (line 370) and one per checksum address that was given a name (line 394)
BatchEnsReverse(ws, um) ==
    LET keys == DedupKeepFirst(AsList([k \in 1..Len(ws) |-> ToChecksum(ws[k])]), <<>>)
        KeyOf(a) == CHOOSE k \in 1..Len(keys) : keys[k] = a
        Of(rounds) ==
            LET Given(k) == rounds.resolver[k] # 0 /\ rounds.second[k][1]
                            /\ rounds.second[k][2] # <<>>
                GivenKey(a) == \E k \in 1..Len(keys) : keys[k] = a /\ Given(k)
                ValueOf(a) == IF GivenKey(a) THEN ReverseName(rounds.second[KeyOf(a)][2])
                              ELSE [none |-> TRUE, s |-> <<>>]
                Map(allkeys) ==
                    [k \in 1..Len(allkeys) |-> << allkeys[k], ValueOf(allkeys[k]) >>]
            IN [raises |-> FALSE,
                map |-> Map(DedupKeepFirst(ws \o SelectSeq(keys, GivenKey), <<>>)),
                reqs |-> rounds.reqs,
                sent |-> rounds.sent]
    IN IF \E k \in 1..Len(ws) : ~ChecksumOk(ws[k])
       THEN [raises |-> TRUE, map |-> <<>>, reqs |-> 0, sent |-> {}]
       ELSE Of(EnsRounds(AsList([k \in 1..Len(keys) |->
                                   << "addr.reverse", keys[k].id >>]),
                         "name", um))

\* lines 1468-1478: the wallets pushed after the input wallets when
\* ens_forward_map is not empty: ens_forward_map.get(name) for each name,
\* then every value of the map
ForwardWalletsNone(ens_names, fmap) == <<>>

ForwardWallets(ens_names, fmap) ==
    LET get(n) == fmap[CHOOSE k \in 1..Len(fmap) : fmap[k][1] = n][2]
    IN IF fmap = <<>> THEN <<>>
       ELSE [k \in 1..Len(ens_names) |-> get(ens_names[k])]
            \o [k \in 1..Len(fmap) |-> fmap[k][2]]

\* the decimals lookup (lines 1486-1509): the assignments to out["decimals"]
DecimalsLookup(ts, um) ==
    LET cs == SelectSeq(ts, EncOk)
        cls == [k \in 1..Len(cs) |-> << cs[k], Enc("decimals", <<>>) >>]
        ks == [k \in 1..Len(cs) |-> k]
        Answers(k) == ~netDown /\ cs[k].id \in TokenIds
                      /\ tokenKind[cs[k].id] = "erc20"
        Value(d) == IF d[1] /\ d[2] # <<>> THEN DecodeUint8(d[2])
                    ELSE [ok |-> FALSE, val |-> 0]
        Writes(vals, decoded) ==
            [j \in 1..Len(decoded) |-> << ToChecksum(cs[decoded[j]]), vals[decoded[j]].val >>]
        Decoded(vals) ==
            LET Ok(k) == vals[k].ok
            IN Writes(vals, SelectSeq(ks, Ok))
        Batched(agg) ==
            [writes |-> Decoded(AsList([k \in 1..Len(cs) |-> Value(agg.res[k])])),
             reqs |-> agg.reqs,
             sent |-> AggregateSent("decimals", cls)]
        Direct(answered) ==
            [writes |-> [j \in 1..Len(answered) |->
                           << ToChecksum(cs[answered[j]]), Dec(cs[answered[j]].id) >>],
             reqs |-> Len(cs),
             sent |-> { NetCall("decimals", cs[k], "decimals") : k \in 1..Len(cs) }]
    IN IF um THEN Batched(Aggregate3(cls, TRUE))
       ELSE Direct(SelectSeq(ks, Answers))

\* _multicall_fetch_labels and lines 1511-1519: raises when a token is no
\* address (lines 1374, 1381); else the assignments to out["names"] and
\* out["symbols"]
LabelsLookup(ts, do_name, do_symbol) ==
    LET fields == (IF do_name THEN << "name" >> ELSE <<>>)
                  \o (IF do_symbol THEN << "symbol" >> ELSE <<>>)
        nf == Len(fields)
        cls == [n \in 1..(Len(ts) * nf) |->
                    << ToChecksum(ts[((n - 1) \div nf) + 1]),
                       Enc(fields[((n - 1) % nf) + 1], <<>>) >>]
        Value(d) == IF d[1] /\ d[2] # <<>> THEN DecodeStringLike(d[2])
                    ELSE [none |-> TRUE, s |-> <<>>]
        Writes(vals, ns) == [j \in 1..Len(ns) |-> << cls[ns[j]][1], vals[ns[j]].s >>]
        Of(vals, field) ==
            LET IsField(n) == cls[n][2].fn = field /\ ~vals[n].none
            IN Writes(vals, SelectSeq([n \in 1..Len(cls) |-> n], IsField))
        Labelled(agg, vals) ==
            [raises |-> FALSE,
             names |-> Of(vals, "name"),
             symbols |-> Of(vals, "symbol"),
             reqs |-> agg.reqs,
             sent |-> AggregateSent("labels", cls)]
        Fetched(agg) == Labelled(agg, AsList([n \in 1..Len(cls) |-> Value(agg.res[n])]))
    IN IF \E k \in 1..Len(ts) : ~ChecksumOk(ts[k])
       THEN [raises |-> TRUE, names |-> <<>>, symbols |-> <<>>, reqs |-> 0, sent |-> {}]
       ELSE Fetched(Aggregate3(cls, TRUE))

\* the allowance lookup (lines 1660-1696): raises when the spender, a wallet
\* or a token is no address (lines 1661, 1666, 1668, 1688, 1690); else the
\* assignments to out["allowance"]
AllowanceLookup(ws, ts, spender, um) ==
    LET ps == Pairs(ws, ts)
        S == ToChecksum(spender)
        cls == [k \in 1..Len(ps) |->
                    << ToChecksum(ps[k][2]),
                       Enc("allowance", << ToChecksum(ps[k][1]), S >>) >>]
        starts == [c \in 1..((Len(cls) + Chunk - 1) \div Chunk) |-> (c - 1) * Chunk]
        Answer(raises, data) == IF raises \/ data = <<>> \/ Len(data) < 32 THEN 0
                                ELSE IntFromBytes(SubSeq(data, 1, 32))
        Sent == { NetCall("allowance", cls[k][1], "allowance") : k \in 1..Len(cls) }
        Batched(aggs) ==
            [raises |-> FALSE,
             writes |-> [k \in 1..Len(ps) |->
                           << << cls[k][2].args[1], cls[k][1] >>,
                              BalanceValue(aggs[((k - 1) \div Chunk) + 1].res[
                                               ((k - 1) % Chunk) + 1]) >>],
             reqs |-> SumSeq([c \in 1..Len(starts) |-> aggs[c].reqs]),
             sent |-> Sent]
    IN IF ~ChecksumOk(spender)
          \/ (\E k \in 1..Len(ws) : ~ChecksumOk(ws[k]))
          \/ (\E k \in 1..Len(ts) : ~ChecksumOk(ts[k]))
       THEN [raises |-> TRUE, writes |-> <<>>, reqs |-> 0, sent |-> {}]
       ELSE IF um
       THEN Batched([c \in 1..Len(starts) |->
                       Aggregate3(CallsPart(cls, starts[c]), TRUE)])
       ELSE [raises |-> FALSE,
             writes |-> [k \in 1..Len(ps) |->
                           << << cls[k][2].args[1], cls[k][1] >>,
                              Answer(EthCallRaises(cls[k]), ExecCall(cls[k])[2]) >>],
             reqs |-> Len(ps),
             sent |-> Sent]

\* lines 1648-1657: the native name / symbol written for each native token of
\* a visited pair, unless the map already has the key
NativeLabels(ws, ts, label, have) ==
    LET np == SelectSeq(Pairs(ws, ts), IsNativePair)
        First(k) == /\ \A j \in 1..(k - 1) : PairKey(np[j])[2] # PairKey(np[k])[2]
                    /\ \A j \in 1..Len(have) : have[j][1] # PairKey(np[k])[2]
        ks == SelectSeq([k \in 1..Len(np) |-> k], First)
    IN [j \in 1..Len(ks) |-> << PairKey(np[ks[j]])[2], label >>]

(***************************************************************************)
(* Inputs of the model                                                     *)
(***************************************************************************)
WalletStrs == { AddrS(1, "checksum"), AddrS(1, "lower"), AddrS(2, "mixed"), BadS }

TokenStrs == { AddrS(1, "checksum"), PadS(AddrS(2, "lower")),
               AddrS(SentinelId, "checksum"), BadS, EmptyS }

WalletLists == UNION { [1..n -> WalletStrs] : n \in 0..MaxWallets }

TokenLists == UNION { [1..n -> TokenStrs] : n \in 0..MaxTokens }

\* a large request: BulkWallets wallets and two tokens
BulkWalletList == [k \in 1..BulkWallets |-> AddrS(k, "checksum")]

BulkTokenList == << AddrS(1, "checksum"), AddrS(2, "checksum") >>

\* requests that mix the optional lookups: wallets in several casings and an
\* invalid one, a token list with the native sentinel, with the chain's
\* native synonym and with an invalid entry, a spender, names to resolve
MetaWalletLists ==
    { <<>>,
      << AddrS(1, "mixed") >>,
      << AddrS(1, "mixed"), AddrS(1, "lower") >>,
      << AddrS(2, "checksum"), BadS >> }

MetaTokenLists ==
    { <<>>,
      << AddrS(1, "checksum") >>,
      << AddrS(SentinelId, "checksum"), AddrS(1, "lower") >>,
      << AddrS(PolygonNativeId, "lower"), AddrS(2, "checksum") >>,
      << AddrS(1, "checksum"), BadS >> }

SpenderStrs == { NoneV, AddrS(5, "lower"), BadS }

EnsNameLists == { <<>>, << "n1" >>, << "n2", "n3" >>, << "n4", "n2", "n2" >> }

\* every combination of the five optional lookups without names to resolve
\* (a spender only where the allowance lookup is asked for), and names to
\* resolve with and without the reverse and the allowance lookup
MetaOpts ==
    [spender : { NoneV }, ens_names : { <<>> }, want_decimals : BOOLEAN,
     with_name : BOOLEAN, with_symbol : BOOLEAN, want_ens : BOOLEAN,
     want_allowance : { FALSE }]
    \cup
    [spender : SpenderStrs, ens_names : { <<>> }, want_decimals : BOOLEAN,
     with_name : BOOLEAN, with_symbol : BOOLEAN, want_ens : BOOLEAN,
     want_allowance : { TRUE }]
    \cup
    [spender : { AddrS(5, "lower") }, ens_names : EnsNameLists \ { <<>> },
     want_decimals : { FALSE }, with_name : { FALSE }, with_symbol : { FALSE },
     want_ens : BOOLEAN, want_allowance : BOOLEAN]

\* calls handed to _aggregate3 by a collaborator
CallSet ==
    { << AddrS(1, "checksum"), Enc("balanceOf", << AddrS(1, "checksum") >>) >>,
      << AddrS(2, "lower"), Enc("balanceOf", << AddrS(2, "checksum") >>) >>,
      << BadS, Enc("balanceOf", << AddrS(1, "checksum") >>) >> }

CallLists == UNION { [1..n -> CallSet] : n \in 0..MaxCalls }

(***************************************************************************)
(* multicall_fetch (balances) and _aggregate3 as steps                     *)
(***************************************************************************)
\* the keyword arguments with every optional lookup switched off
OptsOff ==
    [spender |-> NoneV, ens_names |-> <<>>, want_decimals |-> FALSE,
     with_name |-> FALSE, with_symbol |-> FALSE, want_ens |-> FALSE,
     want_allowance |-> FALSE]

\* out of line 1432 without "balances": every map empty
EmptyOut ==
    [decimals |-> <<>>, names |-> <<>>, symbols |-> <<>>, allowance |-> <<>>,
     ens_reverse |-> <<>>, ens_forward |-> <<>>]

\* native_name and native_symbol of the POLYGON configuration: "Matic", "MATIC"
NativeName == << 77, 97, 116, 105, 99 >>

NativeSymbol == << 77, 65, 84, 73, 67 >>

\* multicall_fetch from its entry to the name / symbol lookup (lines
\* 1432-1519): forward resolution, the working wallet list, reverse
\* resolution, decimals, names and symbols.  An exception of
\* batch_ens_reverse or _multicall_fetch_labels leaves the function.
FetchStart(ws, ts, um, wb, o) ==
    /\ fpc = "idle"
    /\ in_wallets' = ws
    /\ in_tokens' = ts
    /\ use_multicall' = um
    /\ want_balance' = wb
    /\ opts' = o
    /\ LET nothing == [raises |-> FALSE, map |-> <<>>, writes |-> <<>>,
                       names |-> <<>>, symbols |-> <<>>, reqs |-> 0, sent |-> {}]
       IN \E fwd \in { IF o.ens_names # <<>> THEN BatchEnsForward(o.ens_names, um)
                        ELSE nothing } :
          \E fw \in { PushWallets(ws \o ForwardWallets(o.ens_names, fwd.map)) } :
          \E rev \in { IF o.want_ens /\ fw # <<>> THEN BatchEnsReverse(fw, um)
                        ELSE nothing } :
          \E dec \in { IF ~rev.raises /\ o.want_decimals /\ ts # <<>>
                        THEN DecimalsLookup(ts, um) ELSE nothing } :
          \E lab \in { IF ~rev.raises /\ (o.with_name \/ o.with_symbol) /\ ts # <<>>
                        THEN LabelsLookup(ts, o.with_name, o.with_symbol)
                        ELSE nothing } :
             /\ wallets' = fw
             /\ requests' = requests + fwd.reqs + rev.reqs + dec.reqs + lab.reqs
             /\ sentCalls' = sentCalls \cup fwd.sent \cup rev.sent \cup dec.sent
                                        \cup lab.sent
             /\ IF rev.raises \/ lab.raises
                THEN /\ fpc' = "raised"
                     /\ out' = EmptyOut
                ELSE /\ fpc' = "balances"
                     /\ out' = [decimals |-> dec.writes,
                                names |-> lab.names,
                                symbols |-> lab.symbols,
                                allowance |-> <<>>,
                                ens_reverse |-> rev.map,
                                ens_forward |-> fwd.map]
    /\ UNCHANGED << netDown, batchState, tokenKind, allow_failure, calls, index,
                    ci, bal_writes, results, paths, parts >>
    /\ UNCHANGED provVars
    /\ UNCHANGED << ensVars, swapVars >>

\* a balance request: ens_names=None and the optional lookups switched off
FetchCall ==
    /\ fpc = "idle"
    /\ \E ws \in WalletLists, ts \in TokenLists, um \in BOOLEAN, wb \in BOOLEAN :
        FetchStart(ws, ts, um, wb, OptsOff)

FetchCallBulk == FetchStart(BulkWalletList, BulkTokenList, TRUE, TRUE, OptsOff)

\* a request with any combination of the optional lookups
FetchCallMeta ==
    /\ fpc = "idle"
    /\ \E ws \in MetaWalletLists, ts \in MetaTokenLists, um \in BOOLEAN,
          wb \in BOOLEAN, o \in MetaOpts :
        FetchStart(ws, ts, um, wb, o)

\* "if want_balance and tokens and wallets" is false (line 1522)
BalancesSkip ==
    /\ fpc = "balances"
    /\ ~(want_balance /\ in_tokens # <<>> /\ wallets # <<>>)
    /\ fpc' = "finish"
    /\ UNCHANGED << netDown, batchState, tokenKind, in_wallets, in_tokens,
                    use_multicall, want_balance, opts, allow_failure, wallets,
                    calls, index, ci, bal_writes, out, sentCalls, results,
                    paths, parts, requests >>
    /\ UNCHANGED provVars
    /\ UNCHANGED << ensVars, swapVars >>

\* multicall path: the loops that build calls and index (lines 1575-1606)
BalancesBuild ==
    /\ fpc = "balances"
    /\ want_balance /\ in_tokens # <<>> /\ wallets # <<>>
    /\ use_multicall
    /\ LET b == BuildCalls(wallets, in_tokens)
       IN /\ calls' = b.calls
          /\ index' = b.index
          /\ bal_writes' = b.writes
          /\ requests' = requests + b.reqs
          /\ sentCalls' = sentCalls \cup
                { NetCall("balances", b.writes[k][1][1], "get_balance") :
                    k \in 1..Len(b.writes) }
    /\ ci' = 0
    /\ fpc' = "chunks"
    /\ UNCHANGED << netDown, batchState, tokenKind, in_wallets, in_tokens,
                    use_multicall, want_balance, opts, allow_failure, wallets,
                    out, results, paths, parts >>
    /\ UNCHANGED provVars
    /\ UNCHANGED << ensVars, swapVars >>

\* one iteration of "for i in range(0, len(calls), chunk)" (lines 1607-1617)
BalancesChunk ==
    /\ fpc = "chunks"
    /\ ci < Len(calls)
    /\ LET part == CallsPart(calls, ci)
           agg == Aggregate3(part, TRUE)
       IN /\ bal_writes' = bal_writes \o ZipWrites(IndexPart(index, ci), agg.res)
          /\ results' = results \o agg.res
          /\ paths' = Append(paths, agg.path)
          /\ parts' = Append(parts, Len(part))
          /\ requests' = requests + agg.reqs
          /\ sentCalls' = sentCalls \cup AggregateSent("balances", part)
    /\ ci' = ci + Chunk
    /\ UNCHANGED << netDown, batchState, tokenKind, fpc, in_wallets, in_tokens,
                    use_multicall, want_balance, opts, allow_failure, wallets,
                    calls, index, out >>
    /\ UNCHANGED provVars
    /\ UNCHANGED << ensVars, swapVars >>

\* the chunk loop is over; the native names and symbols (lines 1648-1657)
BalancesChunksEnd ==
    /\ fpc = "chunks"
    /\ ci >= Len(calls)
    /\ out' = [out EXCEPT
                 !.names = IF opts.with_name
                           THEN @ \o NativeLabels(wallets, in_tokens, NativeName, @)
                           ELSE @,
                 !.symbols = IF opts.with_symbol
                             THEN @ \o NativeLabels(wallets, in_tokens, NativeSymbol, @)
                             ELSE @]
    /\ fpc' = "finish"
    /\ UNCHANGED << netDown, batchState, tokenKind, in_wallets, in_tokens,
                    use_multicall, want_balance, opts, allow_failure, wallets,
                    calls, index, ci, bal_writes, sentCalls, results, paths,
                    parts, requests >>
    /\ UNCHANGED provVars
    /\ UNCHANGED << ensVars, swapVars >>

\* direct path: one balanceOf / get_balance request per pair (lines
\* 1618-1646), then the native names and symbols (lines 1648-1657)
BalancesDirect ==
    /\ fpc = "balances"
    /\ want_balance /\ in_tokens # <<>> /\ wallets # <<>>
    /\ ~use_multicall
    /\ LET d == DirectWallets(wallets, in_tokens)
       IN /\ bal_writes' = d.writes
          /\ requests' = requests + d.reqs
          /\ sentCalls' = sentCalls \cup
                { IF LowerS(d.writes[k][1][2]) \in NativeAliases
                  THEN NetCall("balances", d.writes[k][1][1], "get_balance")
                  ELSE NetCall("balances", d.writes[k][1][2], "balanceOf") :
                    k \in 1..Len(d.writes) }
    /\ out' = [out EXCEPT
                 !.names = IF opts.with_name
                           THEN @ \o NativeLabels(wallets, in_tokens, NativeName, @)
                           ELSE @,
                 !.symbols = IF opts.with_symbol
                             THEN @ \o NativeLabels(wallets, in_tokens, NativeSymbol, @)
                             ELSE @]
    /\ fpc' = "finish"
    /\ UNCHANGED << netDown, batchState, tokenKind, in_wallets, in_tokens,
                    use_multicall, want_balance, opts, allow_failure, wallets,
                    calls, index, ci, results, paths, parts >>
    /\ UNCHANGED provVars
    /\ UNCHANGED << ensVars, swapVars >>

\* the allowance lookup, out["wallets_resolved"] = list(wallets) and
\* "return out" (lines 1660-1699); an exception of the lookup leaves the
\* function
FetchReturn ==
    /\ fpc = "finish"
    /\ \E al \in { IF opts.want_allowance /\ ~Falsy(opts.spender)
                       /\ wallets # <<>> /\ in_tokens # <<>>
                    THEN AllowanceLookup(wallets, in_tokens, opts.spender,
                                         use_multicall)
                    ELSE [raises |-> FALSE, writes |-> <<>>, reqs |-> 0,
                          sent |-> {}] } :
          /\ fpc' = IF al.raises THEN "raised" ELSE "returned"
          /\ out' = [out EXCEPT !.allowance = al.writes]
          /\ requests' = requests + al.reqs
          /\ sentCalls' = sentCalls \cup al.sent
    /\ UNCHANGED << netDown, batchState, tokenKind, in_wallets, in_tokens,
                    use_multicall, want_balance, opts, allow_failure, wallets,
                    calls, index, ci, bal_writes, results, paths, parts >>
    /\ UNCHANGED provVars
    /\ UNCHANGED << ensVars, swapVars >>

\* a collaborator calls _aggregate3(calls, allow_failure) (lines 295-319)
AggregateCall ==
    /\ fpc = "idle"
    /\ \E cs \in CallLists, allow \in BOOLEAN :
        LET agg == Aggregate3(cs, allow)
        IN /\ calls' = cs
           /\ allow_failure' = allow
           /\ results' = agg.res
           /\ paths' = << agg.path >>
           /\ parts' = << Len(cs) >>
           /\ requests' = requests + agg.reqs
    /\ fpc' = "agg_returned"
    /\ UNCHANGED << netDown, batchState, tokenKind, in_wallets, in_tokens,
                    use_multicall, want_balance, opts, wallets, index, ci,
                    bal_writes, out, sentCalls >>
    /\ UNCHANGED provVars
    /\ UNCHANGED << ensVars, swapVars >>

\* no name lookup is running
EnsIdle ==
    /\ epc = "idle"
    /\ ens_fn = "addr"
    /\ ens_in = <<>>
    /\ ens_um = TRUE
    /\ ens_keys = <<>>
    /\ ens_resolvers = <<>>
    /\ ens_groups = <<>>
    /\ ens_gi = 0
    /\ ens_out = <<>>
    /\ ens_log = <<>>
    /\ ens_fwd = <<>>

\* the tokens check_eip2612_support is asked about
PermitTokens ==
    { AddrS(1, "checksum"), AddrS(1, "lower"), AddrS(2, "checksum"),
      NATIVE_SENTINEL, AddrS(PolygonNativeId, "checksum"), BadS, EmptyS }

\* a SwapManager right after construction (no key loaded, an empty permit
\* cache: lines 42-48 of kyberSwap.py), over the shipped configuration and
\* standard tokens
SwapIdle ==
    /\ kpc = "idle"
    /\ key_blob = <<>>
    /\ wallet_private_keys = <<>>
    /\ wallet_addresses = <<>>
    /\ permit_cache = [t \in PermitTokens |-> "absent"]
    /\ permit_call = NoneV
    /\ permit_abi = "full"
    /\ nonce_kind = [t \in TokenIds |-> "owner"]

\* no fetch and no name lookup is running (the state the transport
\* specification keeps)
FetchIdle ==
    /\ fpc = "idle"
    /\ in_wallets = <<>>
    /\ in_tokens = <<>>
    /\ use_multicall = TRUE
    /\ want_balance = TRUE
    /\ opts = OptsOff
    /\ allow_failure = TRUE
    /\ wallets = <<>>
    /\ calls = <<>>
    /\ index = <<>>
    /\ ci = 0
    /\ bal_writes = <<>>
    /\ out = EmptyOut
    /\ sentCalls = {}
    /\ results = <<>>
    /\ paths = <<>>
    /\ parts = <<>>
    /\ requests = 0
    /\ EnsIdle

\* a Web3Helper over some chain state and some state of the network
FetchInit ==
    /\ netDown \in BOOLEAN
    /\ batchState \in { "ok", "unset", "raises" }
    /\ tokenKind \in [TokenIds -> TokenKinds]
    /\ FetchIdle
    /\ SwapIdle

\* a provider over one endpoint, at rest
ProvIdle ==
    /\ urls = << <<"a">> >>
    /\ endpoint_uri = <<"a">>
    /\ idx = 0
    /\ lock = NoThread
    /\ pc = [t \in Threads |-> "idle"]
    /\ attempts = [t \in Threads |-> 0]
    /\ total = [t \in Threads |-> 0]
    /\ last_exc = [t \in Threads |-> NoneV]
    /\ last_error_resp = [t \in Threads |-> NoneV]
    /\ response = [t \in Threads |-> NoneV]
    /\ tried = [t \in Threads |-> {}]
    /\ sent = [t \in Threads |-> 0]
    /\ failed = [t \in Threads |-> 0]
    /\ rotations = [t \in Threads |-> 0]
    /\ raisedAt = [t \in Threads |-> 0]
    /\ idx0 = [t \in Threads |-> -1]
    /\ result = [t \in Threads |-> NoneV]

Init ==
    /\ ProvInit
    /\ netDown = FALSE
    /\ batchState = "ok"
    /\ tokenKind = [t \in TokenIds |-> "erc20"]
    /\ FetchIdle
    /\ SwapIdle

Next == ProvNext

Spec == Init /\ [][Next]_vars

InitFetch == ProvIdle /\ FetchInit

NextFetch ==
    \/ FetchCall
    \/ FetchCallBulk
    \/ BalancesSkip
    \/ BalancesBuild
    \/ BalancesChunk
    \/ BalancesChunksEnd
    \/ BalancesDirect
    \/ FetchReturn
    \/ AggregateCall

SpecFetch == InitFetch /\ [][NextFetch]_vars

\* a Web3Helper whose second token contract is well behaved
InitMeta ==
    /\ ProvIdle
    /\ netDown \in BOOLEAN
    /\ batchState \in { "ok", "unset", "raises" }
    /\ tokenKind \in { f \in [TokenIds -> TokenKinds] : f[2] = "erc20" }
    /\ FetchIdle
    /\ SwapIdle

NextMeta ==
    \/ FetchCallMeta
    \/ BalancesSkip
    \/ BalancesBuild
    \/ BalancesChunk
    \/ BalancesChunksEnd
    \/ BalancesDirect
    \/ FetchReturn

SpecMeta == InitMeta /\ [][NextMeta]_vars

(***************************************************************************)
(* batch_ens_forward and batch_ens_reverse as steps                        *)
(***************************************************************************)
\* the names and the wallets handed to the two lookups
EnsForwardInputs ==
    { <<>>, << "n1" >>, << "n2", "n3" >>, << "n4", "n2", "n2" >>,
      << "n1", "n4", "n5", "n2" >>, << "n6", "n1" >>, << "n5", "n6", "n3", "n4" >> }

EnsReverseInputs ==
    { <<>>,
      << AddrS(1, "checksum") >>,
      << AddrS(1, "lower") >>,
      << AddrS(1, "mixed"), AddrS(1, "lower") >>,
      << AddrS(3, "checksum"), AddrS(4, "lower"), AddrS(2, "checksum") >>,
      << AddrS(2, "checksum"), BadS >> }

\* self._namehash(n) / self._reverse_node(w): the node of a key
NodeOf(fn, key) == IF fn = "addr" THEN << key, 0 >> ELSE << "addr.reverse", key.id >>

GroupMembersAny(resolvers, r) ==
    LET Bound(k) == resolvers[k] # 0
    IN SelectSeq(AsList([k \in 1..Len(resolvers) |-> k]), Bound)

\* the positions of the keys bound to resolver r in by_resolver (lines
\* 429-432), in the order of the keys
GroupMembers(resolvers, r) ==
    LET Bound(k) == resolvers[k] = r
    IN SelectSeq(AsList([k \in 1..Len(resolvers) |-> k]), Bound)

\* one record of the history of rounds
EnsLogEntry(round, to, nodes) ==
    [round |-> round, to |-> to, nodes |-> nodes,
     batched |-> ens_um /\ batchState # "unset"]

\* batch_ens_forward(ens_names, use_multicall) is called (lines 401-404)
EnsForwardCall ==
    /\ epc = "idle"
    /\ \E names \in EnsForwardInputs, um \in BOOLEAN :
        /\ ens_in' = names
        /\ ens_um' = um
        /\ ens_keys' = DedupKeepFirst(names, <<>>)
    /\ epc' = "round1"
    /\ ens_fn' = "addr"
    /\ UNCHANGED << ens_resolvers, ens_groups, ens_gi, ens_out, ens_log, ens_fwd >>
    /\ UNCHANGED << provVars, fetchVars, swapVars >>

\* the entry of batch_ens_reverse(ws, um) (lines 342-345): line 345 raises
\* when a wallet is no address
EnsReverseStart(ws, um) ==
    /\ ens_in' = ws
    /\ ens_um' = um
    /\ ens_fn' = "name"
    /\ ens_resolvers' = <<>>
    /\ ens_groups' = <<>>
    /\ ens_gi' = 0
    /\ ens_out' = <<>>
    /\ ens_log' = <<>>
    /\ IF \E k \in 1..Len(ws) : ~ChecksumOk(ws[k])
       THEN /\ epc' = "raised"
            /\ ens_keys' = <<>>
       ELSE /\ epc' = "round1"
            /\ ens_keys' = DedupKeepFirst(AsList([k \in 1..Len(ws) |->
                                                    ToChecksum(ws[k])]), <<>>)
    /\ UNCHANGED << provVars, fetchVars, swapVars >>

\* batch_ens_reverse(wallets, use_multicall) is called
EnsReverseCall ==
    /\ epc = "idle"
    /\ \E ws \in EnsReverseInputs, um \in BOOLEAN : EnsReverseStart(ws, um)
    /\ UNCHANGED ens_fwd

\* batch_ens_reverse is called with the addresses batch_ens_forward returned
EnsRoundTrip ==
    /\ epc = "returned"
    /\ ens_fn = "addr"
    /\ LET last == [k \in 1..Len(ens_keys) |->
                      ens_out[CHOOSE j \in 1..Len(ens_out) :
                                  /\ ens_out[j][1] = ens_keys[k]
                                  /\ \A i \in (j + 1)..Len(ens_out) :
                                       ens_out[i][1] # ens_keys[k]]]
           Resolved(e) == e[2] # NoneV
           found == SelectSeq(last, Resolved)
       IN /\ ens_fwd' = last
          /\ \E um \in BOOLEAN :
               EnsReverseStart([k \in 1..Len(found) |-> found[k][2]], um)

\* round 1 (lines 406-427 / 347-370): the resolver of every node is asked of
\* the registry; resolvers and the all-None out are built
EnsRound1 ==
    /\ epc = "round1"
    /\ \E nodes \in { AsList([k \in 1..Len(ens_keys) |-> NodeOf(ens_fn, ens_keys[k])]) } :
       \E r \in { EnsRound(AsList([k \in 1..Len(nodes) |->
                                     << EnsRegistry, Enc("resolver", << nodes[k] >>) >>]),
                           ens_um) } :
       \E resolvers \in { AsList([k \in 1..Len(nodes) |-> ResolverOf(r.res[k])]) } :
          /\ ens_resolvers' = resolvers
          /\ ens_groups' = LET NonZero(a) == a # 0
                           IN DedupKeepFirst(SelectSeq(resolvers, NonZero), <<>>)
          /\ ens_log' = Append(ens_log, EnsLogEntry(1, EnsRegistry.id, nodes))
    /\ ens_out' = [k \in 1..Len(ens_in) |->
                     << ens_in[k],
                        IF ens_fn = "addr" THEN NoneV ELSE [none |-> TRUE, s |-> <<>>] >>]
    /\ ens_gi' = 0
    /\ epc' = "round2"
    /\ UNCHANGED << ens_fn, ens_in, ens_um, ens_keys, ens_fwd >>
    /\ UNCHANGED << provVars, fetchVars, swapVars >>

\* one iteration of "for raddr, pairs in by_resolver.items()" (lines 434-455
\* / 376-396): fn2(node) is asked of the resolver for the nodes bound to it,
\* and out is assigned for the results that carry data
EnsRound2 ==
    /\ epc = "round2"
    /\ ens_gi < Len(ens_groups)
    /\ \E raddr \in { ens_groups[ens_gi + 1] } :
       \E m \in { GroupMembers(ens_resolvers, raddr) } :
       \E nodes \in { AsList([j \in 1..Len(m) |-> NodeOf(ens_fn, ens_keys[m[j]])]) } :
       \E r \in { EnsRound(AsList([j \in 1..Len(nodes) |->
                                     << AddrS(raddr, "checksum"),
                                        Enc(ens_fn, << nodes[j] >>) >>]),
                           ens_um) } :
          /\ ens_log' = Append(ens_log, EnsLogEntry(2, raddr, nodes))
          /\ ens_out' =
               ens_out \o
               LET Stored(j) == IF ens_fn = "addr"
                                THEN r.res[j][1] /\ r.res[j][2] # <<>>
                                     /\ Len(r.res[j][2]) >= 32
                                ELSE r.res[j][1] /\ r.res[j][2] # <<>>
                   js == SelectSeq(AsList([j \in 1..Len(m) |-> j]), Stored)
               IN [i \in 1..Len(js) |->
                     << ens_keys[m[js[i]]],
                        IF ens_fn = "addr" THEN ForwardValue(r.res[js[i]])
                        ELSE ReverseName(r.res[js[i]][2]) >>]
    /\ ens_gi' = ens_gi + 1
    /\ UNCHANGED << epc, ens_fn, ens_in, ens_um, ens_keys, ens_resolvers,
                    ens_groups, ens_fwd >>
    /\ UNCHANGED << provVars, fetchVars, swapVars >>

\* "return out" (lines 456 / 397)
EnsReturn ==
    /\ epc = "round2"
    /\ ens_gi >= Len(ens_groups)
    /\ epc' = "returned"
    /\ UNCHANGED << ens_fn, ens_in, ens_um, ens_keys, ens_resolvers, ens_groups,
                    ens_gi, ens_out, ens_log, ens_fwd >>
    /\ UNCHANGED << provVars, fetchVars, swapVars >>

\* a Web3Helper with its naming clients, over some state of the network
InitEns ==
    /\ ProvIdle
    /\ netDown \in BOOLEAN
    /\ batchState \in { "ok", "unset", "raises" }
    /\ tokenKind = [t \in TokenIds |-> "erc20"]
    /\ FetchIdle
    /\ SwapIdle

NextEns ==
    \/ EnsForwardCall
    \/ EnsReverseCall
    \/ EnsRoundTrip
    \/ EnsRound1
    \/ EnsRound2
    \/ EnsReturn

SpecEns == InitEns /\ [][NextEns]_vars

(***************************************************************************)
(* SwapManager: loading the private keys                                   *)
(***************************************************************************)
MaxKeyItems == 3

\* A token of the key text: a 64-hex-digit value id, written with or without
\* the 0x prefix and with its letters in upper or lower case.  Value 1 is
\* 11..1, value 2 is 22..2, value 10 is aa..a, value 0 is 00..0.
KeyTok(id, prefixed, upper) ==
    [kind |-> "key", id |-> id, prefixed |-> prefixed, upper |-> upper]

\* the other items of a key text: "junk" is a token that is no key, "#"
\* starts a comment that runs to the end of the line, "nl" ends a line
PlainItem(kind) == [kind |-> kind, id |-> 0, prefixed |-> FALSE, upper |-> FALSE]

\* the items of a key text; two tokens of one line are separated by a blank
KeyItems ==
    { KeyTok(1, FALSE, FALSE), KeyTok(2, TRUE, FALSE), KeyTok(10, FALSE, TRUE),
      KeyTok(10, TRUE, FALSE), KeyTok(0, FALSE, FALSE),
      PlainItem("junk"), PlainItem("#"), PlainItem("nl") }

\* _PRIV_RE.match(tok.strip())
PrivReMatches(tok) == tok.kind = "key"

\* key = "0x" + m.group(1).lower()
NormalKey(tok) == [tok EXCEPT !.prefixed = TRUE, !.upper = FALSE]

\* the tokens the line loop of _parse_privatekeys_blob visits: the items of
\* the text outside comments (raw.split("#", 1)[0], re.split)
RECURSIVE VisitedTokens(_, _)
VisitedTokens(items, comment) ==
    IF items = <<>> THEN <<>>
    ELSE IF Head(items).kind = "nl" THEN VisitedTokens(Tail(items), FALSE)
    ELSE IF Head(items).kind = "#" THEN VisitedTokens(Tail(items), TRUE)
    ELSE IF comment THEN VisitedTokens(Tail(items), TRUE)
    ELSE << Head(items) >> \o VisitedTokens(Tail(items), FALSE)

\* _parse_privatekeys_blob: the normalised keys, first occurrences, in order
ParsePrivateKeysBlob(blob) ==
    LET toks == SelectSeq(VisitedTokens(blob, FALSE), PrivReMatches)
    IN DedupKeepFirst(AsList([k \in 1..Len(toks) |-> NormalKey(toks[k])]), <<>>)

\* Account.from_key(k) accepts a key whose value is in 1..n-1
FromKeyOk(k) == k.id # 0

\* _derive_addresses_from_private_keys: (filtered_keys, derived); the
\* address of the key of value v is the address 200 + v
DeriveAddresses(keys) ==
    LET good == SelectSeq(keys, FromKeyOk)
    IN [keys |-> good,
        addrs |-> AsList([k \in 1..Len(good) |-> AddrS(200 + good[k].id, "checksum")])]

\* _store_wallet_addresses without names: the checksum addresses, first
\* occurrences, in order
StoredAddresses(addresses) ==
    DedupKeepFirst(AsList([k \in 1..Len(addresses) |-> ToChecksum(addresses[k])]), <<>>)

\* load_privatekeys_file, then _store_private_keys on its result: sys.exit(1)
\* when no key is left
LoadKeys ==
    /\ kpc # "exited"
    /\ \E blob \in UNION { [1..n -> KeyItems] : n \in 0..MaxKeyItems } :
       \E d \in { DeriveAddresses(ParsePrivateKeysBlob(blob)) } :
          /\ key_blob' = blob
          /\ IF d.keys = <<>>
             THEN /\ kpc' = "exited"
                  /\ UNCHANGED << wallet_private_keys, wallet_addresses >>
             ELSE /\ kpc' = "loaded"
                  /\ wallet_private_keys' = d.keys
                  /\ wallet_addresses' = StoredAddresses(d.addrs)
    /\ UNCHANGED << permit_abi, nonce_kind, permit_cache, permit_call >>
    /\ UNCHANGED << provVars, fetchVars, ensVars >>

InitKeys ==
    /\ ProvIdle
    /\ netDown = FALSE
    /\ batchState = "ok"
    /\ tokenKind = [t \in TokenIds |-> "erc20"]
    /\ FetchIdle
    /\ SwapIdle

SpecKeys == InitKeys /\ [][LoadKeys]_vars

(***************************************************************************)
(* SwapManager: check_eip2612_support                                      *)
(***************************************************************************)
\* SwapManager._checksum: None for a falsy value and for a string that is
\* no address
SwapChecksum(value) ==
    IF Falsy(value) THEN NoneV
    ELSE IF ChecksumOk(value) THEN ToChecksum(value) ELSE NoneV

\* c.functions.nonces(owner).call() / c.functions.nonces().call() returns:
\* the node is reachable, the contract answers that function, and the
\* argument is an address
ProbeReturns(contract, owner, fn) ==
    /\ ~netDown
    /\ contract.id \in TokenIds
    /\ IF fn = "nonces(owner)"
       THEN ChecksumOk(owner) /\ nonce_kind[contract.id] = "owner"
       ELSE nonce_kind[contract.id] = "noarg"

PermitProbesOwnerOnly(contract, owner) ==
    << [fn |-> "nonces(owner)", ok |-> ProbeReturns(contract, owner, "nonces(owner)")] >>

\* lines 821-832: try nonces(owner), then nonces()
PermitProbes(contract, owner) ==
    LET first == [fn |-> "nonces(owner)",
                  ok |-> ProbeReturns(contract, owner, "nonces(owner)")]
    IN IF first.ok THEN << first >>
       ELSE << first, [fn |-> "nonces()", ok |-> ProbeReturns(contract, owner, "nonces()")] >>

\* check_eip2612_support past the cache lookup (lines 793-841): the probes
\* made and the value returned and cached.  to_checksum_address of line 809
\* raises for a string that is no address; the handler of line 838 turns
\* that into False.
PermitDecision(token, owner) ==
    LET token_checksum == SwapChecksum(token)
        native_checksum == SwapChecksum(CfgNativeToken)
        native_aliases == { NATIVE_SENTINEL } \cup
                          (IF native_checksum # NoneV THEN { LowerS(native_checksum) }
                           ELSE {})
        target == IF token_checksum # NoneV THEN token_checksum ELSE token
        Of(probes) == [probes |-> probes, result |-> probes[Len(probes)].ok]
        no == [probes |-> <<>>, result |-> FALSE]
    IN IF token_checksum # NoneV /\ LowerS(token_checksum) \in native_aliases THEN no
       ELSE IF permit_abi = "missing" THEN no
       ELSE IF ~ChecksumOk(target) THEN no
       ELSE IF permit_abi = "nopermit" THEN no
       ELSE Of(PermitProbes(ToChecksum(target), owner))

\* check_eip2612_support(token_address, owner_address), for an owner that
\* is an address and for one that is none
CheckEip2612Support ==
    /\ \E token \in PermitTokens : \E owner \in { AddrS(7, "checksum"), BadS } :
        IF permit_cache[token] # "absent"
        THEN /\ permit_call' = [kind |-> "call", token |-> token, owner |-> owner,
                                down |-> netDown, hit |-> TRUE, probes |-> <<>>,
                                result |-> (permit_cache[token] = "True")]
             /\ UNCHANGED permit_cache
        ELSE \E d \in { PermitDecision(token, owner) } :
             /\ permit_call' = [kind |-> "call", token |-> token, owner |-> owner,
                                down |-> netDown, hit |-> FALSE, probes |-> d.probes,
                                result |-> d.result]
             /\ permit_cache' = [permit_cache EXCEPT ![token] =
                                    IF d.result THEN "True" ELSE "False"]
    /\ UNCHANGED << kpc, key_blob, wallet_private_keys, wallet_addresses,
                    permit_abi, nonce_kind >>
    /\ UNCHANGED << provVars, fetchVars, ensVars >>

\* the endpoints of the pool go down or come back
NetworkChange ==
    /\ netDown' = ~netDown
    /\ UNCHANGED << batchState, tokenKind, fpc, in_wallets, in_tokens,
                    use_multicall, want_balance, opts, allow_failure, wallets, calls,
                    index, ci, bal_writes, out, sentCalls, results, paths, parts,
                    requests >>
    /\ UNCHANGED << provVars, ensVars, swapVars >>

\* a SwapManager over some chain configuration and some token contracts
InitPermit ==
    /\ ProvIdle
    /\ netDown \in BOOLEAN
    /\ batchState = "ok"
    /\ tokenKind = [t \in TokenIds |-> "erc20"]
    /\ fpc = "idle"
    /\ in_wallets = <<>>
    /\ in_tokens = <<>>
    /\ use_multicall = TRUE
    /\ want_balance = TRUE
    /\ opts = OptsOff
    /\ allow_failure = TRUE
    /\ wallets = <<>>
    /\ calls = <<>>
    /\ index = <<>>
    /\ ci = 0
    /\ bal_writes = <<>>
    /\ out = EmptyOut
    /\ sentCalls = {}
    /\ results = <<>>
    /\ paths = <<>>
    /\ parts = <<>>
    /\ requests = 0
    /\ EnsIdle
    /\ kpc = "idle"
    /\ key_blob = <<>>
    /\ wallet_private_keys = <<>>
    /\ wallet_addresses = <<>>
    /\ permit_cache = [t \in PermitTokens |-> "absent"]
    /\ permit_call = NoneV
    /\ permit_abi \in { "missing", "nopermit", "full" }
    /\ nonce_kind \in { f \in [TokenIds -> { "owner", "noarg", "none" }] :
                           f[2] = "owner" }

NextPermit ==
    \/ CheckEip2612Support
    \/ NetworkChange

SpecPermit == InitPermit /\ [][NextPermit]_vars

(***************************************************************************)
(* Properties of the failover transport                                    *)
(***************************************************************************)
K == Len(urls)

PoolUrls == SeqRange(urls)

\* a response that carries a rate-limit signal (section 4.1 of the design)
CarriesRateLimit(resp) ==
    /\ resp.kind = "error"
    /\ \/ resp.error.code \in { -32005, -32000, 429 }
       \/ resp.error.phrases # {}

\* the call of thread t has ended and every request it sent failed
AllFailed(t) == pc[t] = "done" /\ failed[t] = sent[t]

\* the outcome handed to the caller is a failure
SurfacedFailure(res) ==
    \/ res.kind = "raise"
    \/ res.kind = "return" /\ CarriesRateLimit(res.resp)

\* C1: a call never sends more than K requests, and a call whose requests
\* all failed has sent exactly K of them and ends with the exhaustion
\* outcome, whatever the other thread does meanwhile.
C1_RotationBound ==
    \A t \in Threads :
        /\ sent[t] <= K
        /\ AllFailed(t) => sent[t] = K /\ SurfacedFailure(result[t])

\* C1 witness: a pool of 3 endpoints, 3 failed requests, exhaustion, while
\* the other thread is inside a call of its own
C1_Witness ==
    \E t \in Threads :
        /\ K = 3 /\ AllFailed(t) /\ sent[t] = 3
        /\ \E u \in Threads \ {t} : pc[u] \notin { "idle", "done" }

\* C2: a call that reports exhaustion has sent its requests to K distinct
\* endpoints.
C2_DistinctEndpoints ==
    \A t \in Threads : AllFailed(t) => Cardinality(tried[t]) = K

\* C3: at exhaustion the call raises the last exception raised by one of
\* its requests if there is one, and returns a rate-limit error response
\* exactly when none of its requests raised.
C3_ExhaustionOutcome ==
    \A t \in Threads :
        AllFailed(t) =>
            /\ raisedAt[t] # 0 =>
                 /\ result[t].kind = "raise"
                 /\ result[t].exc = [kind |-> "exc", at |-> raisedAt[t]]
            /\ raisedAt[t] = 0 =>
                 /\ result[t].kind = "return"
                 /\ CarriesRateLimit(result[t].resp)

\* C3 witness: the exception of an earlier request is raised although the
\* last request failed with a rate-limit error response
C3_Witness ==
    \E t \in Threads :
        /\ AllFailed(t) /\ K >= 2
        /\ raisedAt[t] # 0 /\ raisedAt[t] < sent[t]
        /\ result[t].kind = "raise"

\* C4: the pool is non-empty and the cursor is within its bounds.
C4_CursorInBounds == K > 0 /\ idx >= 0 /\ idx < K

\* C5: a failure is handed to the caller only when the call has no request
\* left to send, and every failed request was followed by one rotation.
C5_FailureOnlyAtExhaustion ==
    \A t \in Threads :
        /\ (pc[t] = "done" /\ SurfacedFailure(result[t])) => sent[t] = total[t]
        /\ pc[t] \in { "loop", "done" } => rotations[t] = failed[t]

\* C5 witness: a rate-limit error response reaches the caller after the
\* requests of a pool of at least two endpoints were all used up
C5_Witness ==
    \E t \in Threads :
        /\ pc[t] = "done" /\ K >= 2 /\ sent[t] = K
        /\ result[t].kind = "return" /\ CarriesRateLimit(result[t].resp)
        /\ rotations[t] = K

\* C6: whenever no thread holds the lock, the endpoint the next request
\* goes to is urls[index].
C6_NoTornPair ==
    lock = NoThread => (idx + 1 \in 1..K /\ endpoint_uri = urls[idx + 1])

(***************************************************************************)
(* Properties of the batch call executor and of the balance lookup         *)
(***************************************************************************)
\* the outcome of one call on the path its _aggregate3 invocation took:
\* what Multicall3 reports for it, or what a plain eth_call gives
OutcomeOf(call, path) ==
    IF path = "batch" THEN ExecCall(call)
    ELSE IF EthCallRaises(call) THEN << FALSE, <<>> >>
    ELSE << TRUE, ExecCall(call)[2] >>

\* the _aggregate3 invocation that handled the k-th call of multicall_fetch
InvocationOf(k) == ((k - 1) \div Chunk) + 1

DirectAggregateDone == fpc = "agg_returned"

BalanceLookupDone == fpc \in { "finish", "returned" }

\* C7: _aggregate3 returns one result per call, the i-th being the outcome of
\* calls[i], on the batched and on the fallback path; in the balance lookup
\* the results of all chunks, taken in order, are the outcomes of calls[1..N]
\* and each is stored under the (wallet, token) pair its call was built for.
C7_OrderPreserved ==
    /\ DirectAggregateDone =>
         /\ Len(results) = Len(calls)
         /\ \A k \in 1..Len(calls) : results[k] = OutcomeOf(calls[k], paths[1])
    /\ BalanceLookupDone =>
         /\ Len(results) = Len(calls)
         /\ Len(index) = Len(calls)
         /\ Len(bal_writes) >= Len(calls)
         /\ \A k \in 1..Len(calls) :
              /\ results[k] = OutcomeOf(calls[k], paths[InvocationOf(k)])
              /\ calls[k][1] = index[k][2]
              /\ calls[k][2].args[1] = index[k][1]
              /\ bal_writes[Len(bal_writes) - Len(calls) + k]
                    = << index[k], BalanceValue(results[k]) >>

\* C7 witness: a lookup of more than two chunks has returned, with failed and
\* successful calls among its results
C7_Witness ==
    /\ fpc = "returned"
    /\ Len(calls) > 2 * Chunk
    /\ Len(paths) = 3
    /\ \E k \in 1..Len(results) : results[k][1] /\ results[k][2] # <<>>
    /\ \E k \in 1..Len(results) : ~results[k][1]

\* C8: when every endpoint is failing and the call needed the network, the
\* call does not return results.
C8_ExhaustionRaises ==
    (netDown /\ requests > 0) => fpc \notin { "returned", "agg_returned" }

\* the chain holds a balance of zero for the pair and the node can report it
ChainReportsZero(key) ==
    /\ ~netDown
    /\ IF LowerS(key[2]) \in NativeAliases
       THEN NatBal(key[1].id) = 0
       ELSE /\ key[2].id \in TokenIds
            /\ tokenKind[key[2].id] = "erc20"
            /\ Bal(key[1].id, key[2].id) = 0

\* C9: a balance entry of 0 is stored only when the chain reported zero.
C9_ZeroMeansZero ==
    \A k \in 1..Len(bal_writes) :
        bal_writes[k][2] = 0 => ChainReportsZero(bal_writes[k][1])

\* C10: when the batching contract is unset or the batched submission raises,
\* _aggregate3 returns one result per call: (False, b'') where the single
\* call raised, (True, returnData) otherwise.
C10_FallbackAbsorbs ==
    (DirectAggregateDone /\ (batchState = "unset" \/ BatchRaises(calls, allow_failure))) =>
        /\ paths = << "fallback" >>
        /\ Len(results) = Len(calls)
        /\ \A k \in 1..Len(calls) :
             results[k] = IF EthCallRaises(calls[k])
                          THEN << FALSE, <<>> >>
                          ELSE << TRUE, ExecCall(calls[k])[2] >>

\* C10 witness: the batched submission raised; of three calls one was turned
\* into (False, b'') and one returned data
C10_Witness ==
    /\ DirectAggregateDone
    /\ batchState = "raises"
    /\ Len(calls) = 3
    /\ \E k \in 1..Len(results) : results[k] = << FALSE, <<>> >>
    /\ \E k \in 1..Len(results) : results[k][1] /\ Len(results[k][2]) = 32

\* C11: with the batching contract unavailable, every call that succeeds
\* when made on its own gets from _aggregate3 the (success, returnData) the
\* batched path gives that call over the same chain state.
C11_FallbackEquivalence ==
    (DirectAggregateDone /\ batchState # "ok") =>
        /\ paths = << "fallback" >>
        /\ \A k \in 1..Len(calls) :
             ~EthCallRaises(calls[k]) => results[k] = BatchResults(calls)[k]

\* C11 witness: the contract is unset; of three calls one succeeded with a
\* word of data and one raised
C11_Witness ==
    /\ DirectAggregateDone
    /\ batchState = "unset"
    /\ Len(calls) = 3
    /\ \E k \in 1..Len(calls) :
         ~EthCallRaises(calls[k]) /\ results[k][1] /\ Len(results[k][2]) = 32
    /\ \E k \in 1..Len(calls) : EthCallRaises(calls[k])

\* the target of the call is a contract that reverts or an address without
\* code
FailingTarget(call) ==
    /\ ChecksumOk(call[1])
    /\ call[1].id \in TokenIds
    /\ tokenKind[call[1].id] \in { "revert", "nocode" }

\* the target of the call is a well-behaved token contract
ValidTarget(call) ==
    /\ ChecksumOk(call[1])
    /\ call[1].id \in TokenIds
    /\ tokenKind[call[1].id] = "erc20"

\* C12: in an invocation over a reachable network that holds a call to a
\* reverting or non-existent contract and a call to a valid contract, the
\* former has success = false and the latter its return data.
C12_FailureIsolated ==
    (DirectAggregateDone /\ ~netDown) =>
        \A k \in 1..Len(calls), v \in 1..Len(calls) :
            (FailingTarget(calls[k]) /\ ValidTarget(calls[v])) =>
                /\ ~results[k][1]
                /\ results[v] = << TRUE, Word(Bal(calls[v][2].args[1].id, calls[v][1].id)) >>

(***************************************************************************)
(* Properties of multicall_fetch with its optional lookups                 *)
(***************************************************************************)
\* the network calls a lookup category has issued
SentBy(cat) == { c \in sentCalls : c.cat = cat }

\* the address ids of the native sentinel and of the chain's native synonym
NativeIds == { a.id : a \in NativeAliases }

\* the tokens of the request that name the native asset
NativeTokens ==
    { ToChecksum(StripS(in_tokens[k])) :
        k \in { j \in 1..Len(in_tokens) :
                  ChecksumOk(StripS(in_tokens[j]))
                  /\ LowerS(StripS(in_tokens[j])) \in NativeAliases } }

\* a map of out, as the set of its (key, value) entries: the last assignment
\* to a key is its value
Entries(writes) ==
    { writes[k] : k \in { j \in 1..Len(writes) :
                            \A i \in (j + 1)..Len(writes) : writes[i][1] # writes[j][1] } }

FetchRunning == fpc \in { "balances", "chunks", "finish", "returned", "raised" }

\* C13: a lookup category that is switched off issues no network call.
C13_DisabledIssuesNothing ==
    FetchRunning =>
        /\ ~want_balance => SentBy("balances") = {}
        /\ ~opts.want_decimals => SentBy("decimals") = {}
        /\ ~(opts.with_name \/ opts.with_symbol) => SentBy("labels") = {}
        /\ ~opts.want_allowance => SentBy("allowance") = {}
        /\ ~opts.want_ens => SentBy("ens") = {}

\* C14: no balanceOf, decimals, name or symbol call is sent to the address of
\* a native token, and the balance of a native pair comes from get_balance
\* for the wallet.
C14_NativeBypass ==
    FetchRunning =>
        /\ \A c \in sentCalls :
             c.fn \in { "balanceOf", "decimals", "name", "symbol" } => c.to \notin NativeIds
        /\ \A k \in 1..Len(bal_writes) :
             bal_writes[k][1][2] \in NativeTokens =>
                 NetCall("balances", bal_writes[k][1][1], "get_balance") \in sentCalls

\* C15: when decimals are asked for, the decimals map of a returned fetch
\* holds 18 for every native token of the request, and no decimals call was
\* sent to a native token.
C15_NativeDecimals ==
    (fpc = "returned" /\ opts.want_decimals) =>
        \A T \in NativeTokens :
            /\ << T, 18 >> \in Entries(out.decimals)
            /\ \A c \in SentBy("decimals") : c.to # T.id

\* C16: multicall_fetch is never left by an exception.
C16_NeverRaises == fpc # "raised"

\* C17: in the balance lookup a successful call whose return data is shorter
\* than one 32-byte word gives no value: the entry stored for its pair is not
\* derived from the data.
C17_ShortDataIsFailure ==
    BalanceLookupDone =>
        \A k \in 1..Len(calls) :
            (results[k][1] /\ Len(results[k][2]) < 32) =>
                bal_writes[Len(bal_writes) - Len(calls) + k][2] = 0

\* the keys the chunk loop has written to out["balances"]
ChunkKeys ==
    { bal_writes[k][1] : k \in (Len(bal_writes) - Len(calls) + 1)..Len(bal_writes) }

\* C18: the balance lookup over P calls makes ceil(P / 500) _aggregate3
\* invocations, the i-th over calls 500 * (i - 1) + 1 .. 500 * i (the last one
\* over the rest), each answered in the order of its calls; with P distinct
\* pairs the balance map gets P entries.
C18_ChunkCount ==
    (BalanceLookupDone /\ want_balance /\ use_multicall) =>
        /\ Len(paths) = (Len(calls) + Chunk - 1) \div Chunk
        /\ Len(parts) = Len(paths)
        /\ \A i \in 1..Len(parts) :
             /\ parts[i] = Min2(Chunk, Len(calls) - Chunk * (i - 1))
             /\ \A j \in 1..parts[i] :
                  results[Chunk * (i - 1) + j]
                      = OutcomeOf(calls[Chunk * (i - 1) + j], paths[i])
        /\ Cardinality({ index[k] : k \in 1..Len(index) }) = Len(calls)
              => Cardinality(ChunkKeys) = Len(calls)

\* C18 witness: more than 1000 distinct pairs, three invocations of 500, 500
\* and the rest, as many entries as pairs
C18_Witness ==
    /\ fpc = "returned"
    /\ Len(calls) > 2 * Chunk
    /\ parts = << Chunk, Chunk, Len(calls) - 2 * Chunk >>
    /\ Cardinality(ChunkKeys) = Len(calls)

\* C19: every balance and allowance entry is stored under the checksum form
\* of its wallet, so one address has one key per token whatever the casing
\* it was given in.
C19_OneCanonicalKey ==
    fpc \in { "finish", "returned" } =>
        \A e \in Entries(bal_writes) \cup Entries(out.allowance) :
            /\ e[1][1].case = "checksum"
            /\ \A f \in Entries(bal_writes) \cup Entries(out.allowance) :
                 (f[1][1].id = e[1][1].id /\ f[1][2] = e[1][2]) => f[1] = e[1]

\* C19 witness: the wallets are one address in mixed case and in lowercase;
\* the balance map and the allowance map have one entry each
C19_Witness ==
    /\ fpc = "returned"
    /\ in_wallets = << AddrS(1, "mixed"), AddrS(1, "lower") >>
    /\ in_tokens = << AddrS(1, "checksum") >>
    /\ Cardinality(Entries(bal_writes)) = 1
    /\ Cardinality(Entries(out.allowance)) = 1

\* what forward resolution gives for a name, by the records of the chain
Resolution(n) ==
    IF ~netDown /\ EnsRecord(<< n, 0 >>).resolver # 0 /\ EnsRecord(<< n, 0 >>).addr # 0
    THEN AddrS(EnsRecord(<< n, 0 >>).addr, "checksum")
    ELSE NoneV

\* C20: the names are resolved before any balance or allowance lookup; the
\* working wallets are the input wallets and the resolved addresses, each
\* address once; a name that does not resolve adds nothing.
C20_WalletExpansion ==
    fpc \in { "balances", "chunks", "finish", "returned" } =>
        /\ { out.ens_forward[k] : k \in 1..Len(out.ens_forward) }
             = { << opts.ens_names[k], Resolution(opts.ens_names[k]) >> :
                   k \in 1..Len(opts.ens_names) }
        /\ { LowerS(wallets[k]) : k \in 1..Len(wallets) }
             = { LowerS(in_wallets[k]) : k \in 1..Len(in_wallets) }
               \cup ({ LowerS(Resolution(opts.ens_names[k])) :
                         k \in 1..Len(opts.ens_names) } \ { NoneV })
        /\ \A i, j \in 1..Len(wallets) :
             LowerS(wallets[i]) = LowerS(wallets[j]) => i = j
        /\ fpc = "balances" =>
             /\ bal_writes = <<>> /\ out.allowance = <<>>
             /\ SentBy("balances") \cup SentBy("allowance") = {}

\* C20 witness: of the names given one does not resolve and one resolves to
\* an address that is not among the input wallets; its balance was looked up
C20_Witness ==
    /\ fpc = "returned"
    /\ \E k \in 1..Len(opts.ens_names) : Resolution(opts.ens_names[k]) = NoneV
    /\ \E k \in 1..Len(opts.ens_names) :
         /\ Resolution(opts.ens_names[k]) # NoneV
         /\ \A j \in 1..Len(in_wallets) :
              LowerS(in_wallets[j]) # LowerS(Resolution(opts.ens_names[k]))
         /\ \E e \in Entries(bal_writes) : e[1][1] = Resolution(opts.ens_names[k])

(***************************************************************************)
(* Properties of the decimals lookup                                       *)
(***************************************************************************)
FetchPastLookups == fpc \in { "balances", "chunks", "finish", "returned" }

\* C21: every entry of the decimals map is the value the token's decimals()
\* call answered; a token whose call fails, answers nothing or answers data
\* that cannot be decoded has no entry, and no default stands in for it.
C21_NoDefaultDecimals ==
    FetchPastLookups =>
        \A k \in 1..Len(out.decimals) :
            /\ ~netDown
            /\ out.decimals[k][1].id \in TokenIds
            /\ tokenKind[out.decimals[k][1].id] = "erc20"
            /\ out.decimals[k][2] = Dec(out.decimals[k][1].id)

\* C21 witness: decimals were asked of a token that answers one byte; the
\* call went out and the returned map has no entry for the token
C21_Witness ==
    /\ fpc = "returned"
    /\ opts.want_decimals
    /\ tokenKind[1] = "short"
    /\ NetCall("decimals", AddrS(1, "checksum"), "decimals") \in sentCalls
    /\ \A k \in 1..Len(out.decimals) : out.decimals[k][1].id # 1

(***************************************************************************)
(* Properties of batch_ens_forward and batch_ens_reverse                   *)
(***************************************************************************)
\* the resolvers that answer
LiveResolvers == { EnsResolver.id, EnsResolver2.id }

\* what the records of the chain give for a name: its address, None when
\* the name has no resolver, when a call fails or answers nothing, and for
\* the zero address
ForwardExpected(n) ==
    IF ~netDown /\ EnsRecord(<< n, 0 >>).resolver \in LiveResolvers
       /\ EnsRecord(<< n, 0 >>).addr # 0
    THEN AddrS(EnsRecord(<< n, 0 >>).addr, "checksum")
    ELSE NoneV

\* what the records of the chain give for an address: its name, None when
\* there is none
ReverseExpected(a) ==
    IF ~netDown /\ EnsRecord(<< "addr.reverse", a.id >>).resolver \in LiveResolvers
       /\ EnsRecord(<< "addr.reverse", a.id >>).name # <<>>
    THEN [none |-> FALSE, s |-> EnsRecord(<< "addr.reverse", a.id >>).name]
    ELSE [none |-> TRUE, s |-> <<>>]

\* C22: every name given to batch_ens_forward and every address given to
\* batch_ens_reverse has a value; the value is None when there is no
\* resolver or a call fails or answers nothing, and no value is the zero
\* address or the empty string.
C22_UnresolvedIsNone ==
    epc = "returned" =>
        /\ \A k \in 1..Len(ens_in) : \E e \in Entries(ens_out) : e[1] = ens_in[k]
        /\ \A e \in Entries(ens_out) :
             IF ens_fn = "addr"
             THEN /\ e[2] = ForwardExpected(e[1])
                  /\ e[2] # NoneV => e[2].id # 0
             ELSE /\ e[2].none \/ e[2] = ReverseExpected(e[1])
                  /\ ReverseExpected(e[1]).none => e[2].none
                  /\ ~e[2].none => e[2].s # <<>>

\* C22 witness: a forward lookup of a name that resolves, a name whose
\* resolver has no code, a name bound to the zero address and a name without
\* resolver has returned with the network up
C22_Witness ==
    /\ epc = "returned"
    /\ ens_fn = "addr"
    /\ ~netDown
    /\ Entries(ens_out) = { << "n5", AddrS(4, "checksum") >>, << "n6", NoneV >>,
                            << "n3", NoneV >>, << "n4", NoneV >> }

\* the bytes of a name, as a resolver stores it
NameBytes(n) == << 110, CASE n = "n1" -> 49 [] n = "n2" -> 50 [] n = "n3" -> 51
                         [] n = "n4" -> 52 [] n = "n5" -> 53 [] OTHER -> 54 >>

\* a reverse lookup of the addresses a forward lookup returned has ended
RoundTripDone == epc \in { "returned", "raised" } /\ ens_fn = "name" /\ ens_fwd # <<>>

\* C23: reverse-resolving the address a name resolved to does not raise and
\* gives the name or None.
C23_RoundTrip ==
    RoundTripDone =>
        /\ epc = "returned"
        /\ \A k \in 1..Len(ens_fwd) :
             ens_fwd[k][2] # NoneV =>
                 \A e \in Entries(ens_out) :
                     e[1] = ens_fwd[k][2] =>
                         e[2].none \/ e[2].s = NameBytes(ens_fwd[k][1])

\* the nodes of the names that round 1 bound to resolver r, in the order of
\* the names
BoundNodes(r) ==
    LET IsBound(k) == ens_resolvers[k] = r
        ks == SelectSeq([k \in 1..Len(ens_keys) |-> k], IsBound)
    IN [j \in 1..Len(ks) |-> << ens_keys[ks[j]], 0 >>]

C30_OneKeyPerAddress ==
    (ens_fn = "name" /\ epc = "returned") =>
        \A e1 \in Entries(ens_out) : \A e2 \in Entries(ens_out) :
            e1[1].id = e2[1].id => e1 = e2

(***************************************************************************)
(* Frame of make_request                                                   *)
(***************************************************************************)
\* the call of thread t has ended and no other thread was inside _advance
\* while it ran
RanAlone(t) == pc[t] = "done" /\ idx0[t] # -1

\* C27: after a make_request call during which no other thread was inside
\* _advance, the cursor is (cursor at the start + failed attempts) mod K:
\* unchanged when the first attempt was answered, at the position of the
\* attempt that was answered, and back at the start after K failures.
C27_CursorFrame ==
    \A t \in Threads :
        RanAlone(t) =>
            /\ K = 0 => idx = idx0[t]
            /\ K > 0 => idx = (idx0[t] + failed[t]) % K
            /\ failed[t] = 0 => idx = idx0[t]
            /\ (K > 0 /\ failed[t] < sent[t]) => idx = (idx0[t] + sent[t] - 1) % K
            /\ AllFailed(t) => idx = idx0[t]

\* C27 witness: in a pool of three a call that began with the cursor at 1
\* was answered by its third attempt and left the cursor at 0, while the
\* other thread was waiting for the answer to a request of its own
C27_Witness ==
    \E t \in Threads :
        /\ RanAlone(t)
        /\ K = 3 /\ idx0[t] = 1 /\ failed[t] = 2 /\ sent[t] = 3 /\ idx = 0
        /\ result[t].kind = "return"
        /\ \E u \in Threads \ {t} : pc[u] = "loop"

\* the rate-limit signals: a rate phrase in the message, or one of the codes
RateLimitSignal(e) ==
    /\ ~e.falsy
    /\ \/ e.phrases # {}
       \/ e.code \in { -32005, -32000, 429 }

\* C28: an error response that carries no rate-limit signal is handed to
\* the caller by the attempt that received it, with no rotation and no
\* further request after it; a response makes the call rotate only when its
\* error carries a rate-limit signal.
C28_OtherErrorsReturned ==
    \A t \in Threads :
        /\ (pc[t] = "done" /\ result[t].kind = "return"
                /\ result[t].resp.kind = "error"
                /\ result[t].resp # SyntheticError
                /\ ~RateLimitSignal(result[t].resp.error)) =>
              /\ sent[t] = failed[t] + 1
              /\ rotations[t] = failed[t]
              /\ RanAlone(t) /\ failed[t] = 0 => (sent[t] = 1 /\ idx = idx0[t])
        /\ (pc[t] \in { "advance", "adv_uri" } /\ response[t] # NoneV) =>
              /\ response[t].kind = "error"
              /\ RateLimitSignal(response[t].error)

\* C28 witness: in a pool of three a revert came back on the first attempt
\* and was returned, the cursor where it was
C28_Witness ==
    \E t \in Threads :
        /\ RanAlone(t) /\ K = 3
        /\ result[t] = [kind |-> "return",
                        resp |-> [kind |-> "error",
                                  error |-> [kind |-> "dict", falsy |-> FALSE,
                                             code |-> 3, phrases |-> {}]]]
        /\ sent[t] = 1 /\ rotations[t] = 0 /\ idx = idx0[t]

(***************************************************************************)
(* calls and index of multicall_fetch                                      *)
(***************************************************************************)
\* the allowance call of a (wallet, token) key
AllowanceCallOf(key) ==
    << key[2], Enc("allowance", << key[1], ToChecksum(opts.spender) >>) >>

BareForm(tok) == [tok EXCEPT !.prefixed = FALSE]

\* the well-formed entries of the key text that are valid keys
ValidEntries == SelectSeq(SelectSeq(VisitedTokens(key_blob, FALSE), PrivReMatches),
                          FromKeyOk)

\* C25: after loading, every well-formed valid entry of the text is found
\* in the stored list as its bare 64-hex-digit form, the stored list holds
\* nothing else, and there is one derived address per stored key, in the
\* same order.
C25_KeysStoredBare ==
    kpc = "loaded" =>
        /\ \A k \in 1..Len(ValidEntries) :
             BareForm(ValidEntries[k]) \in SeqRange(wallet_private_keys)
        /\ \A j \in 1..Len(wallet_private_keys) :
             \E k \in 1..Len(ValidEntries) :
                 wallet_private_keys[j] = BareForm(ValidEntries[k])
        /\ Len(wallet_addresses) = Len(wallet_private_keys)
        /\ \A j \in 1..Len(wallet_private_keys) :
             wallet_addresses[j] = AddrS(200 + wallet_private_keys[j].id, "checksum")

(***************************************************************************)
(* The permit probe                                                        *)
(***************************************************************************)
\* the contract a token string names
ContractOf(token) == ToChecksum(token)

\* a nonces probe of the token succeeds: nonces(owner), else nonces()
SomeProbeSucceeds(token, owner) ==
    /\ ChecksumOk(token)
    /\ \/ ProbeReturns(ContractOf(token), owner, "nonces(owner)")
       \/ ProbeReturns(ContractOf(token), owner, "nonces()")

IsNativeAsset(token) == ChecksumOk(token) /\ LowerS(token) \in NativeAliases

\* C24: check_eip2612_support never raises; it returns False for the native
\* asset and when permit is not in the ABI; a call that found no cached
\* answer returns True exactly when permit is in the ABI and nonces(owner),
\* or else nonces(), succeeds on the network as it is during the call, and
\* it tries nonces() only after nonces(owner) failed.
C24_PermitSupport ==
    permit_call # NoneV =>
        /\ permit_call.result \in BOOLEAN
        /\ IsNativeAsset(permit_call.token) => ~permit_call.result
        /\ permit_abi # "full" => ~permit_call.result
        /\ (~permit_call.hit /\ permit_call.down = netDown) =>
             /\ permit_call.result =
                  (/\ permit_abi = "full"
                   /\ ~IsNativeAsset(permit_call.token)
                   /\ SomeProbeSucceeds(permit_call.token, permit_call.owner))
             /\ \A k \in 1..Len(permit_call.probes) :
                  permit_call.probes[k].fn =
                      (IF k = 1 THEN "nonces(owner)" ELSE "nonces()")
             /\ Len(permit_call.probes) = 2 => ~permit_call.probes[1].ok

\* C24 witness: the owner is no address, nonces(owner) failed, nonces()
\* answered, and the call returned True
C24_Witness ==
    /\ permit_call # NoneV
    /\ ~permit_call.hit
    /\ permit_call.down = netDown
    /\ permit_call.result
    /\ permit_call.probes = << [fn |-> "nonces(owner)", ok |-> FALSE],
                               [fn |-> "nonces()", ok |-> TRUE] >>

====
